---- MODULE Spec2Model ----
(***************************************************************************)
(* Job execution orchestrator of config_backend.py: the durable job store, *)
(* the PID liveness oracle, the run-admission gate, the run launchers      *)
(* (run_job, run_job_groups), the status reconciler behind get_job and     *)
(* list_jobs, the terminator (stop_job, _kill_pid) and update_job, run by  *)
(* several server workers that share the store and the host's processes.   *)
(*                                                                         *)
(* Abstractions.  A PID is an index 1..MaxPid handed out once (no reuse);  *)
(* "" / None is 0.  A log path is the index of the process that writes it. *)
(* A log's content is one of the classes the parser tells apart (a log it  *)
(* cannot read parses like one without a recap).  A run id (_stamp, with   *)
(* one-second resolution) is a clock reading.                              *)
(* A group id is a pair <<name, n>>: <<"run", n>> is "run<n>",             *)
(* <<"run_", r>> is "run_<runId r>", <<"g1", 0>> is the caller's "g1" and  *)
(* <<"g1", r>> is "g1_<runId r>".  activeRuns, an insertion-ordered dict,  *)
(* is a sequence of entries with distinct gid fields.                      *)
(***************************************************************************)
EXTENDS Integers, Sequences, FiniteSets, TLC

\* ---- bounds of the model ----
NumWorkers == 2
NumJobs == 3
MaxPid == 3

\* config_backend.py:797 sets 50; the model runs the same code with a ceiling
\* small enough to be reached within MaxPid processes.
MAX_CONCURRENT_RUNS == 2

Workers == 1..NumWorkers
Jobs == 1..NumJobs
Pids == 1..MaxPid

VARIABLES
    store,          \* jobs table of jobs.db: job id -> document (NoJob when no row)
    procs,          \* the host's process table: pid -> [st, parent]
    logs,           \* content class of each run.log
    running_procs,  \* each worker's _running_procs (pids it holds a Popen for)
    gate,           \* holder of _run_gate_lock, 0 when free
    clock,          \* latest _stamp() reading handed out
    pc,             \* each worker's position in the request it serves
    local,          \* each worker's local variables of that request
    job_json        \* each job directory's job.json (NoDir, NoJob when no file)

vars == <<store, procs, logs, running_procs, gate, clock, pc, local, job_json>>

\* ---- documents ----
NoJob == [jobId |-> 0]
NoDir == [jobId |-> -1]
NoLocal == [op |-> "none"]
NoRuns == <<>>

\* the document create_job saves
NewJobDoc(j) ==
    [jobId |-> j, status |-> "saved", lastRunId |-> 0, lastLogPath |-> 0,
     lastPid |-> 0, activeRuns |-> NoRuns,
     hasTsrCount |-> FALSE, hasCounts |-> FALSE]

\* a document left by a release that predates activeRuns: one run in lastPid
LegacyRunningDoc(j, p) ==
    [jobId |-> j, status |-> "running", lastRunId |-> 0, lastLogPath |-> p,
     lastPid |-> p, activeRuns |-> NoRuns,
     hasTsrCount |-> TRUE, hasCounts |-> TRUE]

\* ---- ordered-dict helpers for activeRuns ----
Keys(ar) == {ar[i].gid : i \in 1..Len(ar)}
IndexOf(ar, gid) == CHOOSE i \in 1..Len(ar) : ar[i].gid = gid
\* d[gid] = entry : replaces in place when the key exists, appends otherwise
Put(ar, entry) ==
    IF entry.gid \in Keys(ar)
    THEN [ar EXCEPT ![IndexOf(ar, entry.gid)] = entry]
    ELSE Append(ar, entry)

\* ---- liveness oracle ----
\* os.kill(pid, 0) succeeds for a live process and for a zombie; the /proc
\* State line then rules the zombie out.
KillProbeOk(pid) == pid \in Pids /\ procs[pid].st \in {"alive", "zombie"}
PidAlive(pid) == KillProbeOk(pid) /\ procs[pid].st # "zombie"

\* ---- log parsing ----
ParseRunResultFromLog_NoRecapFails(logPath) ==
    IF logPath = 0 \/ logs[logPath] = "nofile" THEN ""
    ELSE IF logs[logPath] = "recap_ok" THEN "passed"
    ELSE "failed"

ParseRunResultFromLog(logPath) ==
    IF logPath = 0 \/ logs[logPath] = "nofile" THEN ""
    ELSE IF logs[logPath] = "norecap" THEN ""
    ELSE IF logs[logPath] = "recap_failed" THEN "failed"
    ELSE "passed"

ParseLastRunResult(job) == ParseRunResultFromLog(job.lastLogPath)

\* ---- status reconciler ----
\* mutant: a group is classified without the liveness probe
ReconcileGroup_NoProbe(g) ==
    IF g.status # "running" THEN g
    ELSE IF g.pid = 0 THEN g
    ELSE [g EXCEPT
            !.status = IF ParseRunResultFromLog(g.logPath) = "failed"
                       THEN "failed" ELSE "completed",
            !.pid = 0]

\* mutant: the dead group's pid stays in its entry
ReconcileGroup_KeepsPid(g) ==
    IF g.status # "running" THEN g
    ELSE IF g.pid = 0 THEN g
    ELSE IF PidAlive(g.pid) THEN g
    ELSE [g EXCEPT
            !.status = IF ParseRunResultFromLog(g.logPath) = "failed"
                       THEN "failed" ELSE "completed"]

ReconcileGroup(g) ==
    IF g.status # "running" THEN g
    ELSE IF g.pid = 0 THEN g
    ELSE IF PidAlive(g.pid) THEN g
    ELSE [g EXCEPT
            !.status = IF ParseRunResultFromLog(g.logPath) = "failed"
                       THEN "failed" ELSE "completed",
            !.pid = 0]

\* mutant: the job stays running when no group is alive
UpdateJobStatusFromPid_KeepsRunning(job) ==
    IF job.activeRuns # NoRuns
    THEN [job EXCEPT !.activeRuns =
                        [i \in 1..Len(job.activeRuns) |-> ReconcileGroup(job.activeRuns[i])]]
    ELSE job

\* mutant: the job fails only when every group failed
UpdateJobStatusFromPid_AllFailed(job) ==
    IF job.activeRuns # NoRuns
    THEN LET ar == [i \in 1..Len(job.activeRuns) |-> ReconcileGroup(job.activeRuns[i])]
             any_alive == \E i \in 1..Len(ar) :
                             /\ job.activeRuns[i].status = "running"
                             /\ job.activeRuns[i].pid # 0
                             /\ PidAlive(job.activeRuns[i].pid)
             any_failed == \A i \in 1..Len(ar) : ar[i].status = "failed"
         IN  IF any_alive
             THEN [job EXCEPT !.activeRuns = ar, !.status = "running"]
             ELSE IF job.status = "running"
             THEN [job EXCEPT !.activeRuns = ar,
                              !.status = IF any_failed THEN "failed" ELSE "completed",
                              !.lastPid = 0]
             ELSE [job EXCEPT !.activeRuns = ar]
    ELSE IF job.lastPid = 0 THEN job
    ELSE IF PidAlive(job.lastPid) THEN [job EXCEPT !.status = "running"]
    ELSE IF job.status = "running"
    THEN [job EXCEPT !.status = IF ParseLastRunResult(job) = "failed"
                                THEN "failed" ELSE "completed",
                     !.lastPid = 0]
    ELSE job

UpdateJobStatusFromPid(job) ==
    IF job.activeRuns # NoRuns
    THEN LET ar == [i \in 1..Len(job.activeRuns) |-> ReconcileGroup(job.activeRuns[i])]
             any_alive == \E i \in 1..Len(ar) :
                             /\ job.activeRuns[i].status = "running"
                             /\ job.activeRuns[i].pid # 0
                             /\ PidAlive(job.activeRuns[i].pid)
             any_failed == \E i \in 1..Len(ar) : ar[i].status = "failed"
         IN  IF any_alive
             THEN [job EXCEPT !.activeRuns = ar, !.status = "running"]
             ELSE IF job.status = "running"
             THEN [job EXCEPT !.activeRuns = ar,
                              !.status = IF any_failed THEN "failed" ELSE "completed",
                              !.lastPid = 0]
             ELSE [job EXCEPT !.activeRuns = ar]
    ELSE IF job.lastPid = 0 THEN job
    ELSE IF PidAlive(job.lastPid) THEN [job EXCEPT !.status = "running"]
    ELSE IF job.status = "running"
    THEN [job EXCEPT !.status = IF ParseLastRunResult(job) = "failed"
                                THEN "failed" ELSE "completed",
                     !.lastPid = 0]
    ELSE job

\* pids the reconciler finds dead and looks up in _running_procs
DeadPidsSeen(job) ==
    IF job.activeRuns # NoRuns
    THEN {job.activeRuns[i].pid : i \in
            {k \in 1..Len(job.activeRuns) :
                /\ job.activeRuns[k].status = "running"
                /\ job.activeRuns[k].pid # 0
                /\ ~PidAlive(job.activeRuns[k].pid)}}
    ELSE IF job.lastPid # 0 /\ ~PidAlive(job.lastPid) THEN {job.lastPid} ELSE {}

\* _running_procs.pop(pid) and proc.wait(): a worker reaps its own children
PoppedProcs(w, dead) == dead \cap running_procs[w]
ProcsAfterReap(w, dead) ==
    [p \in Pids |->
        IF p \in PoppedProcs(w, dead) /\ procs[p].st = "zombie"
        THEN [procs[p] EXCEPT !.st = "gone"] ELSE procs[p]]

\* ---- _get_job_unlocked: reconcile, recount, decide whether to save ----
\* mutant: a changed status alone does not make the read save
GetJobUnlocked_NoSaveOnChange(job, tsrDiff) ==
    LET r == UpdateJobStatusFromPid(job)
        status_changed == r.status # job.status
        is_running == r.status = "running"
        needs_recount == is_running \/ ~job.hasTsrCount \/ status_changed
        differs == ~job.hasTsrCount \/ tsrDiff
    IN  [doc |-> [r EXCEPT !.hasTsrCount = IF needs_recount THEN TRUE ELSE @],
         write |-> needs_recount /\ differs]

\* mutant: every read saves
GetJobUnlocked_AlwaysSaves(job, tsrDiff) ==
    LET r == UpdateJobStatusFromPid(job)
    IN  [doc |-> [r EXCEPT !.hasTsrCount = TRUE], write |-> TRUE]

\* tsrDiff: the TSR file count differs from the cached one
GetJobUnlocked(job, tsrDiff) ==
    LET r == UpdateJobStatusFromPid(job)
        status_changed == r.status # job.status
        is_running == r.status = "running"
        needs_recount == is_running \/ ~job.hasTsrCount \/ status_changed
        differs == ~job.hasTsrCount \/ tsrDiff
    IN  [doc |-> [r EXCEPT !.hasTsrCount = IF needs_recount THEN TRUE ELSE @],
         write |-> (needs_recount /\ (status_changed \/ differs))
                   \/ (~needs_recount /\ status_changed)]

\* ---- list_jobs: the body of its loop for one row ----
ListJobsRow(job) ==
    LET r == UpdateJobStatusFromPid(job)
        status_changed == r.status # job.status
        is_running == r.status = "running"
        needs_cache == ~job.hasCounts \/ ~job.hasTsrCount
    IN  IF is_running \/ needs_cache
        THEN [doc |-> [r EXCEPT !.hasCounts = TRUE, !.hasTsrCount = TRUE], write |-> TRUE]
        ELSE IF status_changed
        THEN [doc |-> [r EXCEPT !.hasTsrCount = TRUE], write |-> TRUE]
        ELSE [doc |-> r, write |-> FALSE]

\* ---- admission count ----
LiveGroupsOf(job) ==
    IF job.activeRuns # NoRuns
    THEN Cardinality({i \in 1..Len(job.activeRuns) :
                        job.activeRuns[i].pid # 0 /\ PidAlive(job.activeRuns[i].pid)})
    ELSE IF job.lastPid # 0 /\ PidAlive(job.lastPid) THEN 1 ELSE 0

RECURSIVE SumLive(_, _)
SumLive(st, js) ==
    IF js = {} THEN 0
    ELSE LET j == CHOOSE x \in js : TRUE
         IN  (IF st[j] # NoJob /\ st[j].status = "running" THEN LiveGroupsOf(st[j]) ELSE 0)
             + SumLive(st, js \ {j})

\* mutant: one unit per running job with a live group
CountActiveRunGroups_PerJob(st) ==
    Cardinality({j \in Jobs : st[j] # NoJob /\ st[j].status = "running"
                               /\ LiveGroupsOf(st[j]) > 0})

CountActiveRunGroups(st) == SumLive(st, Jobs)

\* ---- initial states ----
\* job 1 was created and never run
InitFresh ==
    /\ store = [j \in Jobs |-> IF j = 1 THEN NewJobDoc(1) ELSE NoJob]
    /\ procs = [p \in Pids |-> [st |-> "none", parent |-> 0, elapsed |-> 0]]
    /\ logs = [p \in Pids |-> "nofile"]

\* job 1 is a single run started by the release before activeRuns, whose
\* process (pid 1) outlived the worker that started it
InitLegacy ==
    /\ store = [j \in Jobs |-> IF j = 1 THEN LegacyRunningDoc(1, 1) ELSE NoJob]
    /\ procs = [p \in Pids |-> IF p = 1 THEN [st |-> "alive", parent |-> 0, elapsed |-> 0]
                               ELSE [st |-> "none", parent |-> 0, elapsed |-> 0]]
    /\ logs = [p \in Pids |-> IF p = 1 THEN "norecap" ELSE "nofile"]

InitWorkers ==
    /\ running_procs = [w \in Workers |-> {}]
    /\ gate = 0
    /\ clock = 0
    /\ pc = [w \in Workers |-> "idle"]
    /\ local = [w \in Workers |-> NoLocal]
    /\ job_json = [j \in Jobs |-> IF store[j] = NoJob THEN NoDir ELSE store[j]]

Init == InitFresh /\ InitWorkers

\* db_save_job: the row's document is also written to job.json when the job's
\* directory exists. In the requests below the directory of a stored job
\* exists and its job.json holds the row, so only a changed row changes it.
JobJsonWritten ==
    [j \in Jobs |-> IF store'[j] # store[j] /\ job_json[j] # NoDir
                    THEN store'[j] ELSE job_json[j]]

\* ---- create_job ----
CreateJob(w, j) ==
    /\ pc[w] = "idle"
    /\ store[j] = NoJob
    /\ store' = [store EXCEPT ![j] = NewJobDoc(j)]
    /\ job_json' = [job_json EXCEPT ![j] = NewJobDoc(j)]
    /\ UNCHANGED <<procs, logs, running_procs, gate, clock, pc, local>>

\* ---- the automation process ends by itself ----
\* A child of a worker stays a zombie until that worker waits for it; an
\* orphan is reaped by init at once.
ProcExit(p, content) ==
    /\ procs[p].st = "alive"
    /\ procs' = [procs EXCEPT ![p].st = IF procs[p].parent = 0 THEN "gone" ELSE "zombie"]
    /\ logs' = [logs EXCEPT ![p] = content]
    /\ UNCHANGED <<store, job_json, running_procs, gate, clock, pc, local>>

\* ---- get_job ----
GetJobRead(w, j) ==
    /\ pc[w] = "idle"
    /\ store[j] # NoJob
    /\ \E tsrDiff \in BOOLEAN :
         LET job == store[j]
             g == GetJobUnlocked(job, tsrDiff)
             dead == DeadPidsSeen(job)
         IN  /\ tsrDiff => (g.doc.status = "running" /\ job.hasTsrCount)
             /\ procs' = ProcsAfterReap(w, dead)
             /\ running_procs' = [running_procs EXCEPT ![w] = @ \ dead]
             /\ local' = [local EXCEPT ![w] =
                            IF g.write THEN [op |-> "get_job", job |-> j, doc |-> g.doc]
                            ELSE NoLocal]
             /\ pc' = [pc EXCEPT ![w] = IF g.write THEN "get_save" ELSE "idle"]
    /\ UNCHANGED <<store, job_json, logs, gate, clock>>

GetJobSave(w) ==
    /\ pc[w] = "get_save"
    /\ store' = [store EXCEPT ![local[w].job] = local[w].doc]
    /\ pc' = [pc EXCEPT ![w] = "idle"]
    /\ local' = [local EXCEPT ![w] = NoLocal]
    /\ UNCHANGED <<procs, logs, running_procs, gate, clock>>
    /\ job_json' = JobJsonWritten

\* ---- run_job / run_job_groups: the part that decides what is still live ----
HasLive(job) ==
    IF job.activeRuns # NoRuns
    THEN \E i \in 1..Len(job.activeRuns) :
            job.activeRuns[i].status = "running" /\ PidAlive(job.activeRuns[i].pid)
    ELSE job.lastPid # 0 /\ PidAlive(job.lastPid)

\* mutant: the groups of the earlier attempt are taken over whatever the
\* job's status
ExistingActiveRuns_KeepsOld(job) == job.activeRuns

ExistingActiveRuns(job) ==
    IF job.status # "running" \/ ~HasLive(job) THEN NoRuns
    ELSE IF job.activeRuns # NoRuns THEN job.activeRuns
    ELSE <<[gid |-> <<"run", 1>>, pid |-> job.lastPid,
            logPath |-> job.lastLogPath, status |-> "running"]>>

\* mutant: a stale running status is left as it is
AutoFixed_NoReset(job) == job

\* the auto-fix of a stale running status
AutoFixed(job) ==
    IF job.status = "running" /\ ~HasLive(job)
    THEN [job EXCEPT !.status = "completed", !.lastPid = 0, !.activeRuns = NoRuns]
    ELSE job

\* ---- process start ----
FreePids == {p \in Pids : procs[p].st = "none"}
NextPid == CHOOSE p \in FreePids : \A q \in FreePids : p <= q
\* the processes w starts in one call: pids first .. first+n-1
Spawned(first, n) == {p \in Pids : first <= p /\ p < first + n}
ProcsAfterSpawn(w, first, n) ==
    [p \in Pids |-> IF p \in Spawned(first, n) THEN [st |-> "alive", parent |-> w, elapsed |-> 0]
                    ELSE procs[p]]
LogsAfterSpawn(first, n) ==
    [p \in Pids |-> IF p \in Spawned(first, n) THEN "norecap" ELSE logs[p]]

\* ---- group ids ----
\* run_job: "run%d" % (len(existing)+1), then "run_%s" % run_id while taken
RunJobGid(existing, rid) ==
    IF <<"run", Len(existing) + 1>> \notin Keys(existing)
    THEN <<"run", Len(existing) + 1>>
    ELSE <<"run_", rid>>
\* the while loop never ends when "run_<run_id>" is taken too
RunJobGidLoops(existing, rid) ==
    /\ <<"run", Len(existing) + 1>> \in Keys(existing)
    /\ <<"run_", rid>> \in Keys(existing)

\* run_job_groups: "%s_%s" % (gid, run_id) when gid is taken
GroupGid(gid, dict, rid) == IF gid \in Keys(dict) THEN <<gid[1], rid>> ELSE gid

\* the for loop of run_job_groups from group i on: each group is validated
\* and then started before the next one is looked at
RECURSIVE GroupsLoop(_, _, _, _, _)
GroupsLoop(groups, i, dict, pid, rid) ==
    IF i > Len(groups) THEN [dict |-> dict, launched |-> i - 1, raised |-> FALSE]
    ELSE IF ~groups[i].tagsOk THEN [dict |-> dict, launched |-> i - 1, raised |-> TRUE]
    ELSE GroupsLoop(groups, i + 1,
                    Put(dict, [gid |-> GroupGid(groups[i].gid, dict, rid), pid |-> pid,
                               logPath |-> pid, status |-> "running"]),
                    pid + 1, rid)

\* the requests for groups the model issues: BatchSize groups, ids from two
\* names
GroupNames == {<<"g1", 0>>, <<"g2", 0>>}
BatchSize == 2
GroupRequests == [1..BatchSize -> [gid : GroupNames, tagsOk : BOOLEAN]]

\* _stamp(): the run id of a launch; each launch of the model falls in a
\* second of its own
Stamps == {clock + 1}

\* ---- run_job, run_job_groups: take the gate and read the job ----
\* variant of RunBegin that does not wait for the gate to be free
RunBegin_NoGate(w, j, op) ==
    /\ pc[w] = "idle"
    /\ store[j] # NoJob
    /\ Cardinality(FreePids) >= (IF op = "run_job" THEN 1 ELSE BatchSize)
    /\ \E tsrDiff \in BOOLEAN :
         LET job == store[j]
             g == GetJobUnlocked(job, tsrDiff)
             dead == DeadPidsSeen(job)
         IN  /\ tsrDiff => (g.doc.status = "running" /\ job.hasTsrCount)
             /\ procs' = ProcsAfterReap(w, dead)
             /\ running_procs' = [running_procs EXCEPT ![w] = @ \ dead]
             /\ store' = IF g.write THEN [store EXCEPT ![j] = g.doc] ELSE store
             /\ local' = [local EXCEPT ![w] =
                            [op |-> op, job |-> j, doc |-> g.doc]]
    /\ gate' = w
    /\ pc' = [pc EXCEPT ![w] = "run_gate"]
    /\ UNCHANGED <<logs, clock>>
    /\ job_json' = JobJsonWritten

RunBegin(w, j, op) ==
    /\ pc[w] = "idle"
    /\ gate = 0
    /\ store[j] # NoJob
    /\ Cardinality(FreePids) >= (IF op = "run_job" THEN 1 ELSE BatchSize)
    /\ \E tsrDiff \in BOOLEAN :
         LET job == store[j]
             g == GetJobUnlocked(job, tsrDiff)
             dead == DeadPidsSeen(job)
         IN  /\ tsrDiff => (g.doc.status = "running" /\ job.hasTsrCount)
             /\ procs' = ProcsAfterReap(w, dead)
             /\ running_procs' = [running_procs EXCEPT ![w] = @ \ dead]
             /\ store' = IF g.write THEN [store EXCEPT ![j] = g.doc] ELSE store
             /\ local' = [local EXCEPT ![w] =
                            [op |-> op, job |-> j, doc |-> g.doc]]
    /\ gate' = w
    /\ pc' = [pc EXCEPT ![w] = "run_gate"]
    /\ UNCHANGED <<logs, clock>>
    /\ job_json' = JobJsonWritten

\* what a launcher hands back: an error, or the run id and the groups with
\* their pids and log paths
RunRaised(w, err) ==
    [op |-> local[w].op, job |-> local[w].job, err |-> err, runId |-> 0, groups |-> {}]
RunStarted(w, rid, groups) ==
    [op |-> local[w].op, job |-> local[w].job, err |-> "", runId |-> rid, groups |-> groups]
Returned(ar) == {[gid |-> ar[i].gid, pid |-> ar[i].pid, logPath |-> ar[i].logPath] :
                    i \in 1..Len(ar)}

\* mutant: only the legacy mirror fields are saved, activeRuns is forgotten
RunJobSaved_LegacyOnly(job, merged, pid, rid) ==
    [job EXCEPT !.status = "running", !.lastRunId = rid, !.lastLogPath = pid,
                !.lastPid = pid]

\* the document run_job saves after the launch
RunJobSaved(job, merged, pid, rid) ==
    [job EXCEPT !.status = "running", !.lastRunId = rid, !.lastLogPath = pid,
                !.lastPid = pid, !.activeRuns = merged]

\* ---- run_job: auto-fix, admission, launch, persist, all under the gate ----
RunJobLaunch(w) ==
    /\ pc[w] = "run_gate"
    /\ local[w].op = "run_job"
    /\ LET j == local[w].job
           job == AutoFixed(local[w].doc)
           existing == ExistingActiveRuns(local[w].doc)
           store1 == IF job # local[w].doc THEN [store EXCEPT ![j] = job] ELSE store
           active == CountActiveRunGroups(store1)
           pid == NextPid
       IN  \E outcome \in {"ok", "no_inventory", "bad_tags"}, rid \in Stamps :
             /\ IF active + 1 > MAX_CONCURRENT_RUNS \/ outcome # "ok"
                THEN /\ store' = store1
                     /\ local' = [local EXCEPT ![w] =
                                    RunRaised(w, IF active + 1 > MAX_CONCURRENT_RUNS
                                                 THEN "queue_full" ELSE outcome)]
                     /\ pc' = [pc EXCEPT ![w] = "run_ret"]
                     /\ gate' = 0
                     /\ UNCHANGED <<procs, logs, running_procs, clock>>
                ELSE /\ procs' = ProcsAfterSpawn(w, pid, 1)
                     /\ logs' = LogsAfterSpawn(pid, 1)
                     /\ running_procs' = [running_procs EXCEPT ![w] = @ \cup {pid}]
                     /\ clock' = rid
                     /\ IF RunJobGidLoops(existing, rid)
                        THEN /\ store' = store1
                             /\ pc' = [pc EXCEPT ![w] = "run_loop"]
                             /\ UNCHANGED <<local, gate>>
                        ELSE LET gid == RunJobGid(existing, rid)
                                 merged == Put(existing, [gid |-> gid, pid |-> pid,
                                                          logPath |-> pid, status |-> "running"])
                                 saved == RunJobSaved(job, merged, pid, rid)
                             IN  /\ store' = [store1 EXCEPT ![j] = saved]
                                 /\ local' = [local EXCEPT ![w] =
                                                RunStarted(w, rid, {[gid |-> gid, pid |-> pid,
                                                                     logPath |-> pid]})]
                                 /\ pc' = [pc EXCEPT ![w] = "run_ret"]
                                 /\ gate' = 0
    /\ job_json' = JobJsonWritten

\* the document run_job_groups saves after the loop
RunJobGroupsSaved(job, dict, first, first_group, rid) ==
    [job EXCEPT !.status = "running", !.lastRunId = rid,
                !.activeRuns = dict,
                !.lastPid = IF first_group THEN first ELSE @,
                !.lastLogPath = IF first_group THEN first ELSE @]

\* int(info["pid"]) in the result of run_job_groups raises ValueError on an
\* entry whose pid is the empty string
IntOfPidRaises(dict) == \E i \in 1..Len(dict) : dict[i].pid = 0

\* ---- run_job_groups: the same, for a batch of groups ----
RunJobGroupsLaunch(w, groups) ==
    /\ pc[w] = "run_gate"
    /\ local[w].op = "run_job_groups"
    /\ LET j == local[w].job
           job == AutoFixed(local[w].doc)
           existing == ExistingActiveRuns(local[w].doc)
           store1 == IF job # local[w].doc THEN [store EXCEPT ![j] = job] ELSE store
           active_count == CountActiveRunGroups(store1)
           first == NextPid
       IN  \E outcome \in {"ok", "no_inventory"}, rid \in Stamps :
             /\ IF active_count + Len(groups) > MAX_CONCURRENT_RUNS \/ outcome # "ok"
                THEN /\ store' = store1
                     /\ local' = [local EXCEPT ![w] =
                                    RunRaised(w, IF active_count + Len(groups) > MAX_CONCURRENT_RUNS
                                                 THEN "queue_full" ELSE outcome)]
                     /\ pc' = [pc EXCEPT ![w] = "run_ret"]
                     /\ gate' = 0
                     /\ UNCHANGED <<procs, logs, running_procs, clock>>
                ELSE LET l == GroupsLoop(groups, 1, existing, first, rid)
                         first_group == existing = NoRuns
                         saved == RunJobGroupsSaved(job, l.dict, first, first_group, rid)
                         \* int(info["pid"]) of the result raises on an entry without pid
                         pidless == IntOfPidRaises(l.dict)
                     IN  /\ procs' = ProcsAfterSpawn(w, first, l.launched)
                         /\ logs' = LogsAfterSpawn(first, l.launched)
                         /\ running_procs' = [running_procs EXCEPT ![w] =
                                                @ \cup Spawned(first, l.launched)]
                         /\ clock' = IF l.raised THEN clock ELSE rid
                         /\ store' = IF l.raised THEN store1 ELSE [store1 EXCEPT ![j] = saved]
                         /\ local' = [local EXCEPT ![w] =
                                        IF l.raised THEN RunRaised(w, "bad_tags")
                                        ELSE IF pidless THEN RunRaised(w, "ValueError")
                                        ELSE RunStarted(w, rid, Returned(l.dict))]
                         /\ pc' = [pc EXCEPT ![w] = "run_ret"]
                         /\ gate' = 0
    /\ job_json' = JobJsonWritten

\* mutant: a request turned away for admission is kept for a later attempt
RunReturn_Requeue(w) ==
    /\ pc[w] = "run_ret"
    /\ pc' = [pc EXCEPT ![w] = IF local[w].err = "queue_full" THEN "run_queued" ELSE "idle"]
    /\ local' = [local EXCEPT ![w] = IF local[w].err = "queue_full" THEN @ ELSE NoLocal]
    /\ UNCHANGED <<store, job_json, procs, logs, running_procs, gate, clock>>

\* the launcher's result goes back to the caller
RunReturn(w) ==
    /\ pc[w] = "run_ret"
    /\ pc' = [pc EXCEPT ![w] = "idle"]
    /\ local' = [local EXCEPT ![w] = NoLocal]
    /\ UNCHANGED <<store, job_json, procs, logs, running_procs, gate, clock>>

\* ---- update_job: get_job, edit the descriptive fields, save_job ----
UpdateJobRead(w, j) ==
    /\ pc[w] = "idle"
    /\ store[j] # NoJob
    /\ \E tsrDiff \in BOOLEAN :
         LET job == store[j]
             g == GetJobUnlocked(job, tsrDiff)
             dead == DeadPidsSeen(job)
         IN  /\ tsrDiff => (g.doc.status = "running" /\ job.hasTsrCount)
             /\ procs' = ProcsAfterReap(w, dead)
             /\ running_procs' = [running_procs EXCEPT ![w] = @ \ dead]
             /\ store' = IF g.write THEN [store EXCEPT ![j] = g.doc] ELSE store
             /\ local' = [local EXCEPT ![w] = [op |-> "update_job", job |-> j, doc |-> g.doc]]
    /\ pc' = [pc EXCEPT ![w] = "update_save"]
    /\ UNCHANGED <<logs, gate, clock>>
    /\ job_json' = JobJsonWritten

UpdateJobSave(w) ==
    /\ pc[w] = "update_save"
    /\ store' = [store EXCEPT ![local[w].job] = local[w].doc]
    /\ pc' = [pc EXCEPT ![w] = "idle"]
    /\ local' = [local EXCEPT ![w] = NoLocal]
    /\ UNCHANGED <<procs, logs, running_procs, gate, clock>>
    /\ job_json' = JobJsonWritten

\* ---- list_jobs: db_list_jobs, then one row after the other ----
RECURSIVE JobsInOrder(_)
JobsInOrder(js) ==
    IF js = {} THEN <<>>
    ELSE LET j == CHOOSE x \in js : \A y \in js : x <= y
         IN  <<j>> \o JobsInOrder(js \ {j})

ListJobsRead(w) ==
    /\ pc[w] = "idle"
    /\ \E j \in Jobs : store[j] # NoJob
    /\ local' = [local EXCEPT ![w] =
                    [op |-> "list_jobs", raw |-> store,
                     todo |-> JobsInOrder({j \in Jobs : store[j] # NoJob})]]
    /\ pc' = [pc EXCEPT ![w] = "list_next"]
    /\ UNCHANGED <<store, job_json, procs, logs, running_procs, gate, clock>>

ListJobsNext(w) ==
    /\ pc[w] = "list_next"
    /\ LET j == Head(local[w].todo)
           job == local[w].raw[j]
           row == ListJobsRow(job)
           dead == DeadPidsSeen(job)
           rest == Tail(local[w].todo)
       IN  /\ procs' = ProcsAfterReap(w, dead)
           /\ running_procs' = [running_procs EXCEPT ![w] = @ \ dead]
           /\ store' = IF row.write THEN [store EXCEPT ![j] = row.doc] ELSE store
           /\ IF rest = <<>>
              THEN /\ pc' = [pc EXCEPT ![w] = "idle"]
                   /\ local' = [local EXCEPT ![w] = NoLocal]
              ELSE /\ pc' = pc
                   /\ local' = [local EXCEPT ![w].todo = rest, ![w].raw[j] = row.doc]
    /\ UNCHANGED <<logs, gate, clock>>
    /\ job_json' = JobJsonWritten

\* ---- _kill_pid as stop_job sees it ----
\* SIGTERM reaches a live process or a zombie; after the bounded wait, and
\* SIGKILL if the process outlived it, the process is no longer running.
ProcsAfterKill(pid) ==
    [procs EXCEPT ![pid].st = IF @ = "alive"
                              THEN (IF procs[pid].parent = 0 THEN "gone" ELSE "zombie")
                              ELSE @]

\* ---- stop_job ----
StopJobRead(w, j, group_id) ==
    /\ pc[w] = "idle"
    /\ store[j] # NoJob
    /\ \E tsrDiff \in BOOLEAN :
         LET job == store[j]
             g == GetJobUnlocked(job, tsrDiff)
             dead == DeadPidsSeen(job)
             ar == g.doc.activeRuns
             noop == IF ar # NoRuns
                     THEN group_id # <<>> /\ group_id \notin Keys(ar)
                     ELSE g.doc.lastPid = 0
             todo == IF ar = NoRuns THEN <<>>
                     ELSE IF group_id # <<>> THEN <<IndexOf(ar, group_id)>>
                     ELSE [i \in 1..Len(ar) |-> i]
         IN  /\ tsrDiff => (g.doc.status = "running" /\ job.hasTsrCount)
             /\ procs' = ProcsAfterReap(w, dead)
             /\ running_procs' = [running_procs EXCEPT ![w] = @ \ dead]
             /\ store' = IF g.write THEN [store EXCEPT ![j] = g.doc] ELSE store
             /\ IF noop
                THEN /\ pc' = pc
                     /\ local' = local
                ELSE /\ pc' = [pc EXCEPT ![w] = IF ar # NoRuns THEN "stop_next" ELSE "stop_legacy"]
                     /\ local' = [local EXCEPT ![w] =
                                    [op |-> "stop_job", job |-> j, doc |-> g.doc,
                                     group_id |-> group_id, read |-> g.doc,
                                     todo |-> todo, legacy |-> ar = NoRuns]]
    /\ UNCHANGED <<logs, gate, clock>>
    /\ job_json' = JobJsonWritten

\* the group (or legacy run) stop_job is dealing with
StopPid(w) ==
    IF local[w].legacy THEN local[w].doc.lastPid
    ELSE local[w].doc.activeRuns[Head(local[w].todo)].pid

MarkStopped(l) ==
    [l EXCEPT !.doc.activeRuns[Head(l.todo)].status = "stopped",
              !.doc.activeRuns[Head(l.todo)].pid = 0,
              !.todo = Tail(@)]

\* the loop over the groups up to the next one found alive: a group with no
\* live process is marked stopped without a signal
RECURSIVE SkipDead(_)
SkipDead(l) ==
    IF l.todo = <<>> THEN l
    ELSE LET pid == l.doc.activeRuns[Head(l.todo)].pid
         IN  IF pid # 0 /\ PidAlive(pid) THEN l ELSE SkipDead(MarkStopped(l))

\* multi-group path: the liveness probes up to the next live group
StopJobNext(w) ==
    /\ pc[w] = "stop_next"
    /\ local[w].todo # <<>>
    /\ LET l == SkipDead(local[w])
       IN  /\ local' = [local EXCEPT ![w] = l]
           /\ pc' = [pc EXCEPT ![w] = IF l.todo # <<>> THEN "stop_term" ELSE "stop_next"]
    /\ UNCHANGED <<store, job_json, procs, logs, running_procs, gate, clock>>

\* legacy path: the liveness probe of lastPid
StopJobLegacy(w) ==
    /\ pc[w] = "stop_legacy"
    /\ IF PidAlive(StopPid(w))
       THEN /\ pc' = [pc EXCEPT ![w] = "stop_term"]
            /\ UNCHANGED <<store, local>>
       ELSE /\ store' = [store EXCEPT ![local[w].job] =
                            [local[w].doc EXCEPT !.status = "stopped", !.lastPid = 0]]
            /\ pc' = [pc EXCEPT ![w] = "idle"]
            /\ local' = [local EXCEPT ![w] = NoLocal]
    /\ UNCHANGED <<procs, logs, running_procs, gate, clock>>
    /\ job_json' = JobJsonWritten

\* _kill_pid(pid) delivers its signals
StopJobKill(w) ==
    /\ pc[w] = "stop_term"
    /\ KillProbeOk(StopPid(w))
    /\ procs' = ProcsAfterKill(StopPid(w))
    /\ pc' = [pc EXCEPT ![w] = "stop_next"]
    /\ local' = [local EXCEPT ![w] = IF local[w].legacy THEN local[w] ELSE MarkStopped(local[w])]
    /\ UNCHANGED <<store, job_json, logs, running_procs, gate, clock>>

\* os.kill(pid, SIGTERM) finds no such process: ExecutionError, nothing saved
StopJobRaise(w) ==
    /\ pc[w] = "stop_term"
    /\ ~KillProbeOk(StopPid(w))
    /\ pc' = [pc EXCEPT ![w] = "idle"]
    /\ local' = [local EXCEPT ![w] = NoLocal]
    /\ UNCHANGED <<store, job_json, procs, logs, running_procs, gate, clock>>

\* the job's status after the groups are dealt with, and save_job
StoppedDoc(doc, legacy) ==
    IF legacy \/ ~\E i \in 1..Len(doc.activeRuns) : doc.activeRuns[i].status = "running"
    THEN [doc EXCEPT !.status = "stopped", !.lastPid = 0]
    ELSE doc

StopJobSave(w) ==
    /\ pc[w] = "stop_next"
    /\ local[w].todo = <<>>
    /\ store' = [store EXCEPT ![local[w].job] = StoppedDoc(local[w].doc, local[w].legacy)]
    /\ pc' = [pc EXCEPT ![w] = "idle"]
    /\ local' = [local EXCEPT ![w] = NoLocal]
    /\ UNCHANGED <<procs, logs, running_procs, gate, clock>>
    /\ job_json' = JobJsonWritten

\* group ids a caller may name in stop_job: <<>> is "no groupId"
StopTargets(j) ==
    {<<>>} \cup (IF store[j] # NoJob THEN Keys(store[j].activeRuns) ELSE {})
           \cup {<<"g9", 0>>}

ExitContents == {"norecap", "recap_ok", "recap_failed"}

\* ---- the system: both workers launch, read and update job 1 at the same
\* time, while processes end ----
Next ==
    \/ \E p \in Pids : ProcExit(p, "norecap")
    \/ \E w \in Workers : GetJobRead(w, 1)
    \/ \E w \in Workers : GetJobSave(w)
    \/ \E w \in Workers, op \in {"run_job", "run_job_groups"} : RunBegin(w, 1, op)
    \/ \E w \in Workers : RunJobLaunch(w)
    \/ \E w \in Workers, gs \in GroupRequests : RunJobGroupsLaunch(w, gs)
    \/ \E w \in Workers : RunReturn(w)
    \/ \E w \in Workers : UpdateJobRead(w, 1)
    \/ \E w \in Workers : UpdateJobSave(w)

Spec == Init /\ [][Next]_vars

\* ---- requests served one at a time, while processes end at any moment ----
\* Worker 1 launches and stops job 1; both workers read it.
Quiet == \A w \in Workers : pc[w] = "idle"

ReconNext ==
    \/ \E p \in Pids, c \in ExitContents : ProcExit(p, c)
    \/ Quiet /\ CreateJob(2, 2)
    \/ Quiet /\ \E w \in Workers : GetJobRead(w, 1)
    \/ \E w \in Workers : GetJobSave(w)
    \/ Quiet /\ \E w \in Workers : ListJobsRead(w)
    \/ \E w \in Workers : ListJobsNext(w)
    \/ Quiet /\ \E op \in {"run_job", "run_job_groups"} : RunBegin(1, 1, op)
    \/ RunJobLaunch(1)
    \/ RunJobGroupsLaunch(1, <<[gid |-> <<"g1", 0>>, tagsOk |-> TRUE],
                              [gid |-> <<"g2", 0>>, tagsOk |-> TRUE]>>)
    \/ RunReturn(1)
    \/ Quiet /\ StopJobRead(1, 1, <<>>)
    \/ StopJobNext(1)
    \/ StopJobLegacy(1)
    \/ StopJobKill(1)
    \/ StopJobRaise(1)
    \/ StopJobSave(1)

ReconInit == (InitFresh \/ InitLegacy) /\ InitWorkers

ReconSpec == ReconInit /\ [][ReconNext]_vars

\* ---- stop_job with and without a groupId ----
\* Worker 1 launches batches of two groups on job 1; either worker stops one
\* group, all groups or a group that does not exist, one such request at a
\* time; either worker reads the job at any moment, and processes end at any
\* moment.
StopNext ==
    \/ \E p \in Pids, c \in ExitContents : ProcExit(p, c)
    \/ \E w \in Workers : GetJobRead(w, 1)
    \/ \E w \in Workers : GetJobSave(w)
    \/ Quiet /\ RunBegin(1, 1, "run_job_groups")
    \/ RunJobGroupsLaunch(1, <<[gid |-> <<"g1", 0>>, tagsOk |-> TRUE],
                              [gid |-> <<"g2", 0>>, tagsOk |-> TRUE]>>)
    \/ RunReturn(1)
    \/ Quiet /\ \E w \in Workers, g \in StopTargets(1) : StopJobRead(w, 1, g)
    \/ \E w \in Workers : StopJobNext(w)
    \/ \E w \in Workers : StopJobKill(w)
    \/ \E w \in Workers : StopJobRaise(w)
    \/ \E w \in Workers : StopJobSave(w)

StopInit == InitFresh /\ InitWorkers

StopSpec == StopInit /\ [][StopNext]_vars

\* ---- _kill_pid step by step ----
\* the liveness polls of the wait between SIGTERM and SIGKILL
KILL_POLLS == 30

KillPcs == {"kill_term", "kill_wait", "kill_9", "kill_done", "kill_raised"}

\* sigs: the signals os.kill was called with, in order; polls: the polls that
\* found the process alive; outlived: the check after the wait found it alive
KillPidCall(w, pid) ==
    /\ pc[w] = "idle"
    /\ procs[pid].st # "none"
    /\ pc' = [pc EXCEPT ![w] = "kill_term"]
    /\ local' = [local EXCEPT ![w] =
                   [op |-> "_kill_pid", pid |-> pid, sigs |-> <<>>, polls |-> 0,
                    outlived |-> FALSE]]
    /\ UNCHANGED <<store, job_json, procs, logs, running_procs, gate, clock>>

\* os.kill(pid, SIGTERM); OSError becomes ExecutionError
KillTerm(w) ==
    /\ pc[w] = "kill_term"
    /\ local' = [local EXCEPT ![w].sigs = Append(@, "SIGTERM")]
    /\ pc' = [pc EXCEPT ![w] = IF KillProbeOk(local[w].pid) THEN "kill_wait" ELSE "kill_raised"]
    /\ UNCHANGED <<store, job_json, procs, logs, running_procs, gate, clock>>

\* one turn of the loop: return if the process is gone, else sleep
KillPoll(w) ==
    /\ pc[w] = "kill_wait"
    /\ local[w].polls < KILL_POLLS
    /\ IF PidAlive(local[w].pid)
       THEN /\ local' = [local EXCEPT ![w].polls = @ + 1]
            /\ pc' = pc
       ELSE /\ local' = local
            /\ pc' = [pc EXCEPT ![w] = "kill_done"]
    /\ UNCHANGED <<store, job_json, procs, logs, running_procs, gate, clock>>

\* after the loop: if _pid_alive(pid), go on to SIGKILL
\* mutant: SIGKILL follows the loop without the last liveness check
KillAfterWait_NoRecheck(w) ==
    /\ pc[w] = "kill_wait"
    /\ local[w].polls = KILL_POLLS
    /\ local' = [local EXCEPT ![w].outlived = PidAlive(local[w].pid)]
    /\ pc' = [pc EXCEPT ![w] = "kill_9"]
    /\ UNCHANGED <<store, job_json, procs, logs, running_procs, gate, clock>>

KillAfterWait(w) ==
    /\ pc[w] = "kill_wait"
    /\ local[w].polls = KILL_POLLS
    /\ local' = [local EXCEPT ![w].outlived = PidAlive(local[w].pid)]
    /\ pc' = [pc EXCEPT ![w] = IF PidAlive(local[w].pid) THEN "kill_9" ELSE "kill_done"]
    /\ UNCHANGED <<store, job_json, procs, logs, running_procs, gate, clock>>

\* os.kill(pid, SIGKILL); OSError becomes ExecutionError
KillKill(w) ==
    /\ pc[w] = "kill_9"
    /\ local' = [local EXCEPT ![w].sigs = Append(@, "SIGKILL")]
    /\ procs' = IF KillProbeOk(local[w].pid) THEN ProcsAfterKill(local[w].pid) ELSE procs
    /\ pc' = [pc EXCEPT ![w] = IF KillProbeOk(local[w].pid) THEN "kill_done" ELSE "kill_raised"]
    /\ UNCHANGED <<store, job_json, logs, running_procs, gate, clock>>

KillReturn(w) ==
    /\ pc[w] \in {"kill_done", "kill_raised"}
    /\ pc' = [pc EXCEPT ![w] = "idle"]
    /\ local' = [local EXCEPT ![w] = NoLocal]
    /\ UNCHANGED <<store, job_json, procs, logs, running_procs, gate, clock>>

\* ---- worker 1 launches job 1 and reads it; worker 2 signals the processes,
\* which end when they choose to ----
KillNext ==
    \/ \E p \in Pids : ProcExit(p, "norecap")
    \/ RunBegin(1, 1, "run_job")
    \/ RunJobLaunch(1)
    \/ RunReturn(1)
    \/ GetJobRead(1, 1)
    \/ GetJobSave(1)
    \/ \E p \in Pids : KillPidCall(2, p)
    \/ KillTerm(2)
    \/ KillPoll(2)
    \/ KillAfterWait(2)
    \/ KillKill(2)
    \/ KillReturn(2)

KillSpec == ReconInit /\ [][KillNext]_vars

\* ---- run requests of both workers for several idle jobs ----
InitIdleJobs ==
    /\ store = [j \in Jobs |-> NewJobDoc(j)]
    /\ procs = [p \in Pids |-> [st |-> "none", parent |-> 0, elapsed |-> 0]]
    /\ logs = [p \in Pids |-> "nofile"]

AdmitInit == InitIdleJobs /\ InitWorkers

AdmitNext ==
    \/ \E p \in Pids : ProcExit(p, "norecap")
    \/ \E w \in Workers, j \in Jobs : RunBegin(w, j, "run_job")
    \/ \E w \in Workers : RunBegin(w, 1, "run_job_groups")
    \/ \E w \in Workers : RunJobLaunch(w)
    \/ \E w \in Workers, ok \in BOOLEAN :
          RunJobGroupsLaunch(w, [i \in 1..BatchSize |->
                                    [gid |-> IF i = 1 THEN <<"g1", 0>> ELSE <<"g2", 0>>,
                                     tagsOk |-> i < BatchSize \/ ok]])
    \/ \E w \in Workers : RunReturn(w)

AdmitSpec == AdmitInit /\ [][AdmitNext]_vars

\* ---- the group ids of run_job_groups, for batches of any size ----
\* The loop over the groups and the document built from it are applied to a
\* batch of MinBatch..MaxBatch valid groups for an idle job, with nothing
\* else going on; local[1] keeps the call and what it saved.
MinBatch == 2
MaxBatch == 3
MaxRid == 3
GidRequests ==
    UNION {[1..n -> [gid : GroupNames, tagsOk : {TRUE}]] : n \in MinBatch..MaxBatch}
GidJobs == {[NewJobDoc(1) EXCEPT !.status = st, !.hasTsrCount = t, !.hasCounts = c] :
                st \in {"saved", "completed", "failed", "stopped"}, t, c \in BOOLEAN}

GidInit ==
    /\ InitFresh
    /\ InitWorkers

GidApply(groups, job, rid) ==
    /\ pc[1] = "idle"
    /\ LET l == GroupsLoop(groups, 1, NoRuns, 1, rid)
       IN  local' = [local EXCEPT ![1] =
                        [op |-> "run_job_groups", job |-> 1, groups |-> groups,
                         launched |-> l.launched,
                         saved |-> RunJobGroupsSaved(job, l.dict, 1, TRUE, rid)]]
    /\ UNCHANGED <<store, job_json, procs, logs, running_procs, gate, clock, pc>>

GidNext == \E groups \in GidRequests, job \in GidJobs, rid \in 1..MaxRid : GidApply(groups, job, rid)

GidSpec == GidInit /\ [][GidNext]_vars

\* ======================= properties =======================
Terminal == {"completed", "failed"}
Stored == {j \in Jobs : store[j] # NoJob}

\* what get_job and list_jobs return for a stored document, and whether they save
ReadsOf(job) == {GetJobUnlocked(job, FALSE), ListJobsRow(job)}

\* a group (or the legacy lastPid) of the document is marked running and its
\* process is alive
LiveIn(doc) ==
    IF doc.activeRuns # NoRuns
    THEN \E i \in 1..Len(doc.activeRuns) :
            /\ doc.activeRuns[i].status = "running"
            /\ doc.activeRuns[i].pid # 0
            /\ PidAlive(doc.activeRuns[i].pid)
    ELSE doc.lastPid # 0 /\ PidAlive(doc.lastPid)

RecordedPids(doc) ==
    ({doc.activeRuns[i].pid : i \in 1..Len(doc.activeRuns)} \cup {doc.lastPid}) \ {0}

\* stored as running, every recorded process dead
Stale(doc) ==
    /\ doc # NoJob
    /\ doc.status = "running"
    /\ \A p \in RecordedPids(doc) : ~PidAlive(p)

\* group i of the document is marked running and its process is dead / alive
DeadGroup(doc, i) ==
    /\ doc.activeRuns[i].status = "running"
    /\ doc.activeRuns[i].pid # 0
    /\ ~PidAlive(doc.activeRuns[i].pid)
AliveGroup(doc, i) ==
    /\ doc.activeRuns[i].status = "running"
    /\ doc.activeRuns[i].pid # 0
    /\ PidAlive(doc.activeRuns[i].pid)

\* C1: the number of run groups executing at the same time never exceeds
\* MAX_CONCURRENT_RUNS.
C1_AdmissionCeiling ==
    Cardinality({p \in Pids : procs[p].st = "alive"}) <= MAX_CONCURRENT_RUNS

\* C2: when run_job or run_job_groups returns success, the stored document is
\* running and lists every returned group with the returned pid and log path
\* and status running.
C2_DurableBeforeReturn ==
    \A w \in Workers :
        (pc[w] = "run_ret" /\ local[w].err = "") =>
            LET doc == store[local[w].job]
            IN  /\ doc.status = "running"
                /\ \A g \in local[w].groups :
                      \E i \in 1..Len(doc.activeRuns) :
                          doc.activeRuns[i] = [gid |-> g.gid, pid |-> g.pid,
                                               logPath |-> g.logPath, status |-> "running"]

C2_Witness ==
    /\ pc[1] = "run_ret"
    /\ local[1].err = ""
    /\ local[1].op = "run_job"
    /\ Len(store[1].activeRuns) >= 2

\* C3: a document returned by get_job or list_jobs has status running exactly
\* when one of its groups (or the legacy lastPid) is marked running and its
\* process is alive at the read.
C3_RunningIffLive ==
    \A j \in Stored : \A r \in ReadsOf(store[j]) :
        (r.doc.status = "running") <=> LiveIn(r.doc)

C3_Witness ==
    \E w \in Workers :
        /\ pc[w] = "get_save"
        /\ local[w].doc.status = "running"
        /\ LiveIn(local[w].doc)
        /\ local[w].doc.activeRuns # NoRuns

\* C4: a job stored as running whose recorded processes are all dead is
\* returned with a terminal status, and stored with it, by the next get_job or
\* list_jobs of any worker.
C4_SelfHealing ==
    [][\A w \in Workers :
          /\ (Stale(store[1]) /\ GetJobRead(w, 1)) =>
                (pc'[w] = "get_save" /\ local'[w].doc.status \in Terminal)
          /\ (pc[w] = "get_save" /\ GetJobSave(w)) =>
                store'[local[w].job] = local[w].doc
          /\ (pc[w] = "list_next" /\ Stale(store[Head(local[w].todo)]) /\ ListJobsNext(w)) =>
                store'[Head(local[w].todo)].status \in Terminal]_vars

\* worker 2 never launched anything and is about to save the terminal status
C4_Witness ==
    /\ pc[2] = "get_save"
    /\ running_procs[2] = {}
    /\ Stale(store[1])
    /\ store[1].activeRuns # NoRuns
    /\ local[2].doc.status \in Terminal

\* the statuses of the groups of a document
GroupStatuses(doc) ==
    [i \in 1..Len(doc.activeRuns) |->
        <<doc.activeRuns[i].gid, doc.activeRuns[i].status>>]
\* the stored document after a read of job
AfterRead(job, r) == IF r.write THEN r.doc ELSE job

C6_DeadGroupClassified ==
    \A j \in Stored : \A r \in ReadsOf(store[j]) :
        \A i \in 1..Len(store[j].activeRuns) :
            DeadGroup(store[j], i) =>
                /\ r.doc.activeRuns[i].pid = 0
                /\ r.doc.activeRuns[i].status =
                      IF logs[store[j].activeRuns[i].logPath] = "recap_failed"
                      THEN "failed" ELSE "completed"

C6_Witness ==
    \E w \in Workers : \E i \in 1..Len(store[1].activeRuns) :
        /\ pc[w] = "get_save"
        /\ DeadGroup(store[1], i)
        /\ logs[store[1].activeRuns[i].logPath] = "recap_failed"
        /\ local[w].doc.activeRuns[i].status = "failed"
        /\ local[w].doc.activeRuns[i].pid = 0

\* C7: _kill_pid sends SIGTERM first; it sends SIGKILL only after all
\* KILL_POLLS polls found the process alive, and exactly when the check after
\* the wait finds it still alive.
C7_GracefulThenForceful ==
    \A w \in Workers :
        pc[w] \in KillPcs =>
            LET l == local[w]
                killed == \E i \in 1..Len(l.sigs) : l.sigs[i] = "SIGKILL"
            IN  /\ l.sigs # <<>> => l.sigs[1] = "SIGTERM"
                /\ killed => /\ l.sigs = <<"SIGTERM", "SIGKILL">>
                             /\ l.polls = KILL_POLLS
                             /\ l.outlived
                /\ (pc[w] \in {"kill_done", "kill_raised"} /\ l.outlived) => killed
                /\ pc[w] = "kill_9" => l.outlived

C7_Witness ==
    /\ pc[2] = "kill_done"
    /\ local[2].sigs = <<"SIGTERM", "SIGKILL">>
    /\ local[2].polls = KILL_POLLS
    /\ procs[local[2].pid].st = "zombie"

\* C8: stop_job on a job whose recorded process is dead, whether it died
\* before the call or between the liveness probe and the signal, raises no
\* error and leaves the job not running with an empty pid.
C8_StopDeadIsNoop ==
    [][\A w \in Workers :
          (pc[w] \in {"stop_term", "stop_next", "stop_legacy"} /\ pc'[w] = "idle") =>
              /\ ~StopJobRaise(w)
              /\ store'[local[w].job].status # "running"
              /\ store'[local[w].job].lastPid = 0]_vars

\* C9: when one group's process has ended and another's is alive, a read
\* leaves the live group's entry as it is and the job running.
C9_GroupIsolation ==
    \A j \in Stored : \A r \in ReadsOf(store[j]) :
        \A i, k \in 1..Len(store[j].activeRuns) :
            (DeadGroup(store[j], i) /\ AliveGroup(store[j], k)) =>
                /\ r.doc.activeRuns[k] = store[j].activeRuns[k]
                /\ r.doc.status = "running"

\* one group was classified and stored while the other is still alive
C9_Witness ==
    \E i, k \in 1..Len(store[1].activeRuns) :
        /\ store[1].status = "running"
        /\ store[1].activeRuns[i].status \in Terminal
        /\ store[1].activeRuns[i].pid = 0
        /\ AliveGroup(store[1], k)

\* C10: a read takes a multi-group job from running to a terminal status only
\* when no group's process is alive; the status is failed when a group of
\* activeRuns is failed and completed otherwise, and lastPid is cleared.
C10_Aggregate ==
    \A j \in Stored : \A r \in ReadsOf(store[j]) :
        (store[j].activeRuns # NoRuns /\ store[j].status = "running"
            /\ r.doc.status # "running") =>
                /\ \A i \in 1..Len(store[j].activeRuns) : ~AliveGroup(store[j], i)
                /\ r.doc.status =
                      IF \E i \in 1..Len(r.doc.activeRuns) : r.doc.activeRuns[i].status = "failed"
                      THEN "failed" ELSE "completed"
                /\ r.doc.lastPid = 0

C10_Witness ==
    \E w \in Workers : \E i, k \in 1..Len(store[1].activeRuns) :
        /\ pc[w] = "get_save"
        /\ store[1].status = "running"
        /\ local[w].doc.status = "failed"
        /\ local[w].doc.lastPid = 0
        /\ local[w].doc.activeRuns[i].status = "failed"
        /\ local[w].doc.activeRuns[k].status = "completed"

\* the processes a step starts
StartedBy(w) == {p \in Pids : procs[p].st = "none" /\ procs'[p].st = "alive"
                              /\ procs'[p].parent = w}
\* the step in which worker w's launcher runs from the gate to its result
LaunchStep(w) == pc[w] = "run_gate" /\ pc'[w] = "run_ret"

\* C11: a run request with a tag outside the vocabulary is rejected before
\* any process of the request is started, whichever group carries the tag.
C11_BadTagsNothingStarted ==
    [][\A w \in Workers :
          (LaunchStep(w) /\ local'[w].err = "bad_tags") => StartedBy(w) = {}]_vars

\* C12: at the end of run_job_groups either every requested group was started
\* and is recorded in the stored activeRuns, or the call raised and started
\* nothing; no process it started is missing from the stored document.
C12_BatchAtomic ==
    [][\A w \in Workers :
          (LaunchStep(w) /\ local[w].op = "run_job_groups") =>
              LET doc == store'[local[w].job]
              IN  /\ \A p \in StartedBy(w) :
                        \E i \in 1..Len(doc.activeRuns) :
                            /\ doc.activeRuns[i].pid = p
                            /\ doc.activeRuns[i].status = "running"
                  /\ \/ local'[w].err = "" /\ Cardinality(StartedBy(w)) = BatchSize
                     \/ local'[w].err # "" /\ StartedBy(w) = {}]_vars

\* the pids a document records for its groups
GroupPids(doc) ==
    IF doc.activeRuns # NoRuns
    THEN {doc.activeRuns[i].pid : i \in 1..Len(doc.activeRuns)}
    ELSE {doc.lastPid}
\* live group processes over all jobs, one unit per group
LiveGroups == {p \in Pids : PidAlive(p) /\ \E j \in Stored : p \in GroupPids(store[j])}
\* the number of groups a request asks for
Requested(w) == IF local[w].op = "run_job" THEN 1 ELSE BatchSize

\* C13: a run request for k groups is rejected for admission exactly when
\* the live groups of all jobs plus k exceed MAX_CONCURRENT_RUNS.
C13_AdmissionRule ==
    [][\A w \in Workers :
          LaunchStep(w) =>
              ((local'[w].err = "queue_full")
                  <=> (Cardinality(LiveGroups) + Requested(w) > MAX_CONCURRENT_RUNS))]_vars

\* a request is turned away while the ceiling is reached, and another one is
\* admitted after a process ended
C13_Witness ==
    /\ pc[1] = "run_ret" /\ local[1].err = "queue_full"
    /\ pc[2] = "run_ret" /\ local[2].err = "" /\ local[2].job = 3
    /\ Cardinality(LiveGroups) = MAX_CONCURRENT_RUNS
    /\ \E p \in Pids : procs[p].st = "zombie"

\* C14: run_job_groups with n >= 2 groups on a job without active runs starts
\* n processes and saves exactly n activeRuns entries, one per requested
\* group, each running with a pid and log path of its own; lastPid and
\* lastLogPath are those of the first group.
C14_BatchOfN ==
    local[1].op = "run_job_groups" =>
        LET n == Len(local[1].groups)
            ar == local[1].saved.activeRuns
        IN  /\ local[1].launched = n
            /\ Len(ar) = n
            /\ \A k \in 1..n : \E i \in 1..Len(ar) :
                  ar[i].pid = k /\ ar[i].logPath = k /\ ar[i].status = "running"
            /\ local[1].saved.lastPid = 1
            /\ local[1].saved.lastLogPath = 1

\* C15: launching never reuses a group id present in activeRuns: every group
\* started by the call has a key of its own, also when the requested ids
\* collide with each other.
C15_NoGidReuse ==
    local[1].op = "run_job_groups" =>
        LET ar == local[1].saved.activeRuns
        IN  /\ Len(ar) = local[1].launched
            /\ \A i, k \in 1..Len(ar) : i # k => ar[i].gid # ar[k].gid
            /\ \A p \in 1..local[1].launched : \E i \in 1..Len(ar) : ar[i].pid = p

\* the groups of a document that are live, a live legacy run being "run1"
LiveEntries(doc) ==
    IF doc.activeRuns # NoRuns
    THEN {doc.activeRuns[i] : i \in {k \in 1..Len(doc.activeRuns) : AliveGroup(doc, k)}}
    ELSE IF doc.lastPid # 0 /\ PidAlive(doc.lastPid)
    THEN {[gid |-> <<"run", 1>>, pid |-> doc.lastPid, logPath |-> doc.lastLogPath,
           status |-> "running"]}
    ELSE {}

\* C16: when run_job or run_job_groups is called on a job with live groups,
\* the resulting activeRuns is the groups that were still live, unchanged,
\* plus the groups the call launched.
C16_MergeWithLive ==
    [][\A w \in Workers :
          (LaunchStep(w) /\ local'[w].err = "" /\ local[w].doc.status = "running"
              /\ LiveEntries(local[w].doc) # {}) =>
              LET new == store'[local[w].job].activeRuns
              IN  /\ \A e \in LiveEntries(local[w].doc) :
                        \E i \in 1..Len(new) : new[i] = e
                  /\ \A i \in 1..Len(new) :
                        \/ new[i] \in LiveEntries(local[w].doc)
                        \/ new[i].pid \in StartedBy(w)]_vars

\* the workers that hold a run request between its count and its persist
InGate == {w \in Workers : pc[w] \in {"run_gate", "run_loop"}}

\* C17: the count-admit-launch-persist sequences of two run requests never
\* interleave: at most one request is between taking the gate and its
\* persist, it is the holder of the gate, and a request performs its count
\* and persist only while no other request is in that span.
C17_NoInterleaving ==
    [][/\ Cardinality(InGate) <= 1
       /\ \A w \in InGate : gate = w
       /\ \A w \in Workers :
            LaunchStep(w) => (gate = w /\ InGate = {w})]_vars

\* one request has persisted its launch and the other worker's request now
\* holds the gate, about to count
C17_Witness ==
    /\ pc[1] = "run_ret" /\ local[1].err = ""
    /\ pc[2] = "run_gate" /\ gate = 2
    /\ local[2].job = local[1].job

\* the run state of a stored job
RunState(doc) == <<doc.status, doc.activeRuns, doc.lastPid>>

\* the worker whose request takes the step
Stepping(w) == pc'[w] # pc[w] \/ local'[w] # local[w]

\* C18: every write to the store that changes a job's run state (status,
\* activeRuns, lastPid) is made by a request that holds the run-admission
\* gate while it writes.
C18_WritesUnderGate ==
    [][\A j \in Jobs :
          (/\ store[j] # NoJob /\ store'[j] # NoJob
           /\ RunState(store'[j]) # RunState(store[j]))
          => \E w \in Workers : Stepping(w) /\ (gate = w \/ gate' = w)]_vars

\* stop_job between its read of the job and its end
StopPcs == {"stop_next", "stop_term", "stop_legacy"}

\* the step in which worker w's stop_job ends, by its save or by an error
StopEnds(w) == pc[w] \in StopPcs /\ pc'[w] = "idle"

\* the groups, as stop_job read them, that the request asks to stop
Addressed(w) ==
    LET ar == local[w].read.activeRuns
    IN  {i \in 1..Len(ar) : local[w].group_id = <<>> \/ ar[i].gid = local[w].group_id}

\* the process of a group is running after the step
LiveAfter(pid) == pid # 0 /\ procs'[pid].st = "alive"

\* the save marks the addressed groups stopped and leaves the others as read
StopMarksOnlyAddressed(w) ==
    LET old == local[w].read.activeRuns
        new == store'[local[w].job].activeRuns
    IN  (StopEnds(w) /\ ~StopJobRaise(w)) =>
            /\ Len(new) = Len(old)
            /\ \A i \in 1..Len(old) :
                  IF i \in Addressed(w)
                  THEN new[i].status = "stopped" /\ new[i].pid = 0
                  ELSE new[i] = old[i]

\* a signal goes to the process of an addressed group only
StopSignalsOnlyAddressed(w) ==
    LET old == local[w].read.activeRuns
    IN  (pc[w] \in StopPcs /\ Stepping(w)) =>
            \A p \in Pids : procs'[p] # procs[p] =>
                \E i \in Addressed(w) : old[i].pid = p

\* when stop_job ends, no addressed group has a running process
StopTerminatesAddressed(w) ==
    LET old == local[w].read.activeRuns
    IN  StopEnds(w) => \A i \in Addressed(w) : ~LiveAfter(old[i].pid)

\* when stop_job ends, the job is stopped exactly when no group is running
StopJobStoppedIffNoneLive(w) ==
    LET old == local[w].read.activeRuns
    IN  StopEnds(w) =>
            ((store'[local[w].job].status = "stopped")
                <=> \A i \in 1..Len(old) : ~LiveAfter(old[i].pid))

\* C19: stop_job with a groupId signals only that group's process and marks
\* only that group stopped, every other group keeping its pid and status;
\* stop_job without a groupId terminates every live group; in both cases the
\* job is marked stopped exactly when no group remains live afterwards.
C19_StopGroupOnly ==
    [][\A w \in Workers :
          (pc[w] \in StopPcs /\ ~local[w].legacy) =>
              /\ StopMarksOnlyAddressed(w)
              /\ StopSignalsOnlyAddressed(w)
              /\ StopTerminatesAddressed(w)
              /\ StopJobStoppedIffNoneLive(w)]_vars

\* the exception class raised for each way a request fails
ErrorType(err) ==
    CASE err \in {"queue_full", "no_inventory", "sigterm_failed"} -> "ExecutionError"
      [] err \in {"bad_tags", "cannot_delete"} -> "ValidationError"
      [] err = "not_found" -> "JobNotFoundError"
      [] err = "ValueError" -> "ValueError"
      [] OTHER -> ""

\* handle_exception: the HTTP status of an exception class
StatusCode(error_type) ==
    CASE error_type = "JobNotFoundError" -> 404
      [] error_type = "ValidationError" -> 400
      [] error_type = "ExecutionError" -> 500
      [] error_type = "InventoryError" -> 500
      [] OTHER -> 500

\* what the caller can tell the kind of an error by
ErrorKind(err) == [type |-> ErrorType(err), code |-> StatusCode(ErrorType(err))]

\* missing inventory, signal-delivery failure
HardFailures == {"no_inventory", "sigterm_failed"}

\* C20: the error of a run request rejected because the ceiling is exceeded
\* is of a kind distinct from the errors of hard failures and from
\* validation errors.
C20_AdmissionErrorDistinct ==
    \A w \in Workers :
        (pc[w] = "run_ret" /\ local[w].err = "queue_full") =>
            /\ \A e \in HardFailures : ErrorKind(local[w].err) # ErrorKind(e)
            /\ ErrorKind(local[w].err) # ErrorKind("bad_tags")

\* ---- requests that name a job or a group the store does not have ----
\* run_job, run_job_groups, stop_job on a job id with no document: get_job
\* returns None and the request raises; the launchers take and release the
\* gate around it
UnknownJob(w, j, op) ==
    /\ pc[w] = "idle"
    /\ store[j] = NoJob
    /\ op \in {"run_job", "run_job_groups"} => gate = 0
    /\ pc' = [pc EXCEPT ![w] = "run_ret"]
    /\ local' = [local EXCEPT ![w] =
                   [op |-> op, job |-> j, err |-> "not_found", status |-> "",
                    runId |-> 0, groups |-> {}]]
    /\ UNCHANGED <<store, job_json, procs, logs, running_procs, gate, clock>>

\* stop_job(job, group_id) on a job with activeRuns that has no such group:
\* get_job, then the "noop" result is returned
UnknownGroup(w, j, group_id) ==
    /\ pc[w] = "idle"
    /\ store[j] # NoJob
    /\ group_id # <<>>
    /\ \E tsrDiff \in BOOLEAN :
         LET job == store[j]
             g == GetJobUnlocked(job, tsrDiff)
             dead == DeadPidsSeen(job)
         IN  /\ tsrDiff => (g.doc.status = "running" /\ job.hasTsrCount)
             /\ g.doc.activeRuns # NoRuns
             /\ group_id \notin Keys(g.doc.activeRuns)
             /\ procs' = ProcsAfterReap(w, dead)
             /\ running_procs' = [running_procs EXCEPT ![w] = @ \ dead]
             /\ store' = IF g.write THEN [store EXCEPT ![j] = g.doc] ELSE store
    /\ pc' = [pc EXCEPT ![w] = "run_ret"]
    /\ local' = [local EXCEPT ![w] =
                   [op |-> "stop_job", job |-> j, err |-> "", status |-> "noop",
                    runId |-> 0, groups |-> {}]]
    /\ UNCHANGED <<logs, gate, clock>>
    /\ job_json' = JobJsonWritten

\* Job 1 exists, jobs 2 and 3 do not; worker 1 launches single runs of job 1,
\* both workers read it and send requests for the missing jobs and for a
\* missing group of job 1.
MissingJobs == Jobs \ {1}
MissingGroup == <<"g9", 0>>

UnknownNext ==
    \/ \E p \in Pids, c \in ExitContents : ProcExit(p, c)
    \/ Quiet /\ RunBegin(1, 1, "run_job")
    \/ RunJobLaunch(1)
    \/ \E w \in Workers : RunReturn(w)
    \/ Quiet /\ \E w \in Workers : GetJobRead(w, 1)
    \/ \E w \in Workers : GetJobSave(w)
    \/ \E w \in Workers, j \in MissingJobs,
          op \in {"run_job", "run_job_groups", "stop_job"} : UnknownJob(w, j, op)
    \/ \E w \in Workers : UnknownGroup(w, 1, MissingGroup)

UnknownInit == InitFresh /\ InitWorkers

UnknownSpec == UnknownInit /\ [][UnknownNext]_vars

\* the step in which worker w's request is answered for an unknown target
UnknownAnswered(w) ==
    \/ \E j \in MissingJobs, op \in {"run_job", "run_job_groups", "stop_job"} :
          UnknownJob(w, j, op)
    \/ UnknownGroup(w, 1, MissingGroup)

\* C21: run_job, run_job_groups and stop_job on an unknown job id, and
\* stop_job on a group id that is not in the job's activeRuns, raise a
\* NotFound error and change neither the store nor any process.
C21_UnknownIsNotFound ==
    [][\A w \in Workers :
          UnknownAnswered(w) =>
              /\ ErrorType(local'[w].err) = "JobNotFoundError"
              /\ store' = store
              /\ procs' = procs]_vars

\* ---- delete_job, and a worker that dies and starts again ----
\* delete_job: get_job, the refusal for a running job whose lastPid is alive,
\* then db_delete_job; the directory is removed in a later step
DeleteJobRow(w, j) ==
    /\ pc[w] = "idle"
    /\ store[j] # NoJob
    /\ \E tsrDiff \in BOOLEAN :
         LET job == store[j]
             g == GetJobUnlocked(job, tsrDiff)
             dead == DeadPidsSeen(job)
             refused == /\ g.doc.status = "running"
                        /\ g.doc.lastPid # 0
                        /\ PidAlive(g.doc.lastPid)
         IN  /\ tsrDiff => (g.doc.status = "running" /\ job.hasTsrCount)
             /\ procs' = ProcsAfterReap(w, dead)
             /\ running_procs' = [running_procs EXCEPT ![w] = @ \ dead]
             /\ IF refused
                THEN /\ store' = IF g.write THEN [store EXCEPT ![j] = g.doc] ELSE store
                     /\ job_json' = JobJsonWritten
                     /\ pc' = [pc EXCEPT ![w] = "run_ret"]
                     /\ local' = [local EXCEPT ![w] =
                                    [op |-> "delete_job", job |-> j, err |-> "cannot_delete",
                                     status |-> "", runId |-> 0, groups |-> {}]]
                ELSE /\ store' = [store EXCEPT ![j] = NoJob]
                     /\ job_json' = [job_json EXCEPT ![j] =
                                        IF g.write /\ @ # NoDir THEN g.doc ELSE @]
                     /\ pc' = [pc EXCEPT ![w] = "delete_tree"]
                     /\ local' = [local EXCEPT ![w] = [op |-> "delete_job", job |-> j]]
    /\ UNCHANGED <<logs, gate, clock>>

\* delete_job: shutil.rmtree(jdir), and the result
DeleteJobTree(w) ==
    /\ pc[w] = "delete_tree"
    /\ job_json' = [job_json EXCEPT ![local[w].job] = NoDir]
    /\ pc' = [pc EXCEPT ![w] = "idle"]
    /\ local' = [local EXCEPT ![w] = NoLocal]
    /\ UNCHANGED <<store, procs, logs, running_procs, gate, clock>>

\* _init_db at module load: every job.json whose job has no row is inserted
InitDbMigrated ==
    [j \in Jobs |-> IF store[j] = NoJob /\ job_json[j] \notin {NoDir, NoJob}
                    THEN job_json[j] ELSE store[j]]

\* A worker dies wherever it is and a new one takes its place: the request it
\* served is abandoned, its lock is released, its children pass to init, its
\* _running_procs starts empty, and the module load runs _init_db.
WorkerRestart(w) ==
    /\ pc' = [pc EXCEPT ![w] = "idle"]
    /\ local' = [local EXCEPT ![w] = NoLocal]
    /\ gate' = IF gate = w THEN 0 ELSE gate
    /\ running_procs' = [running_procs EXCEPT ![w] = {}]
    /\ procs' = [p \in Pids |->
                    IF procs[p].parent # w THEN procs[p]
                    ELSE [st |-> IF procs[p].st = "zombie" THEN "gone" ELSE procs[p].st,
                          parent |-> 0, elapsed |-> procs[p].elapsed]]
    /\ store' = InitDbMigrated
    /\ UNCHANGED <<job_json, logs, clock>>

\* Worker 1 creates job 2, runs job 1 and deletes either job, worker 2 reads
\* job 1, one request at a time; worker 1 may be replaced at any moment.
JsonNext ==
    \/ \E p \in Pids : ProcExit(p, "recap_ok")
    \/ Quiet /\ CreateJob(1, 2)
    \/ Quiet /\ RunBegin(1, 1, "run_job")
    \/ RunJobLaunch(1)
    \/ RunReturn(1)
    \/ Quiet /\ GetJobRead(2, 1)
    \/ GetJobSave(2)
    \/ Quiet /\ \E j \in {1, 2} : DeleteJobRow(1, j)
    \/ DeleteJobTree(1)
    \/ WorkerRestart(1)

JsonInit == InitFresh /\ InitWorkers

JsonSpec == JsonInit /\ [][JsonNext]_vars

\* C22: job.json is never read back into the store: the jobs the store
\* returns change by the saves and deletes of requests alone, and a worker
\* that starts again changes none of them.
C22_JobJsonNeverReadBack ==
    [][\A w \in Workers : WorkerRestart(w) => store' = store]_vars

\* ---- the jobs table by itself: db_save_job, db_get_job, db_delete_job,
\* db_list_jobs over rows (job_id, data) ----
\* json.dumps(job): the object's members, one name/value pair per key
JsonDumps(job) == {<<k, job[k]>> : k \in DOMAIN job}
\* json.loads(data): the dict with the value of each name
JsonLoads(data) ==
    [k \in {m[1] : m \in data} |-> (CHOOSE m \in data : m[1] = k)[2]]

\* what db_get_job returns when there is no row
None == [jobId |-> 0]

\* mutant: the new data is laid over the members of the row's old data
DbSaveJob_Merge(rows, job_id, job) ==
    LET old == {r \in rows : r.job_id = job_id}
        kept == UNION {{m \in r.data : m[1] \notin DOMAIN job} : r \in old}
    IN  (rows \ old) \cup {[job_id |-> job_id, data |-> JsonDumps(job) \cup kept]}

\* INSERT OR REPLACE on the primary key job_id
DbSaveJob(rows, job_id, job) ==
    {r \in rows : r.job_id # job_id} \cup {[job_id |-> job_id, data |-> JsonDumps(job)]}

\* SELECT data FROM jobs WHERE job_id = ?, fetchone, json.loads
DbGetJob(rows, job_id) ==
    IF \E r \in rows : r.job_id = job_id
    THEN JsonLoads((CHOOSE r \in rows : r.job_id = job_id).data)
    ELSE None

\* DELETE FROM jobs WHERE job_id = ?
DbDeleteJob(rows, job_id) == {r \in rows : r.job_id # job_id}

\* SELECT data FROM jobs ORDER BY created_at DESC (the model orders by id)
RECURSIVE DbListJobs(_)
DbListJobs(rows) ==
    IF rows = {} THEN <<>>
    ELSE LET r == CHOOSE x \in rows : \A y \in rows : x.job_id <= y.job_id
         IN  <<JsonLoads(r.data)>> \o DbListJobs(rows \ {r})

\* the documents saved: the one create_job writes, with and without the
\* cached count, and one of a running legacy job
DbDocs(j) ==
    {NewJobDoc(j),
     [k \in DOMAIN NewJobDoc(j) \cup {"tsrCount"} |->
         IF k = "tsrCount" THEN 1 ELSE NewJobDoc(j)[k]],
     LegacyRunningDoc(j, 1)}

\* worker 1's local record holds the table, the call made last, what
\* db_get_job returned for its job before it, and what db_get_job and
\* db_list_jobs return after it
DbCalled(op, old, rows, j, job) ==
    [op |-> op, rows |-> rows, job |-> j, doc |-> job, old |-> DbGetJob(old, j),
     got |-> DbGetJob(rows, j), listed |-> DbListJobs(rows)]

DbInit == InitFresh /\ InitWorkers

DbStart ==
    /\ local[1] = NoLocal
    /\ local' = [local EXCEPT ![1] = DbCalled("_init_db", {}, {}, 1, None)]
    /\ UNCHANGED <<store, job_json, procs, logs, running_procs, gate, clock, pc>>

DbSave(j, job) ==
    /\ local[1] # NoLocal
    /\ local' = [local EXCEPT ![1] =
                    DbCalled("db_save_job", local[1].rows,
                             DbSaveJob(local[1].rows, j, job), j, job)]
    /\ UNCHANGED <<store, job_json, procs, logs, running_procs, gate, clock, pc>>

DbDelete(j) ==
    /\ local[1] # NoLocal
    /\ local' = [local EXCEPT ![1] =
                    DbCalled("db_delete_job", local[1].rows,
                             DbDeleteJob(local[1].rows, j), j, None)]
    /\ UNCHANGED <<store, job_json, procs, logs, running_procs, gate, clock, pc>>

DbNext ==
    \/ DbStart
    \/ \E j \in Jobs : \E job \in DbDocs(j) : DbSave(j, job)
    \/ \E j \in Jobs : DbDelete(j)

DbSpec == DbInit /\ [][DbNext]_vars

\* C23: the store holds at most one document per jobId and replaces it whole:
\* after db_save_job(id, J) db_get_job(id) returns exactly J, after
\* db_delete_job(id) it returns absent, and db_list_jobs returns each stored
\* job exactly once.
C23_WholeDocumentReplace ==
    local[1] # NoLocal =>
        LET l == local[1]
            ids == {r.job_id : r \in l.rows}
        IN  /\ \A r1, r2 \in l.rows : r1.job_id = r2.job_id => r1 = r2
            /\ l.op = "db_save_job" => l.got = l.doc
            /\ l.op = "db_delete_job" => l.got = None
            /\ Len(l.listed) = Cardinality(ids)
            /\ \A id \in ids :
                  /\ Cardinality({i \in 1..Len(l.listed) : l.listed[i].jobId = id}) = 1
                  /\ \E i \in 1..Len(l.listed) : l.listed[i] = DbGetJob(l.rows, id)

\* a document without the cached count has replaced one that had it, next to
\* the row of another job
C23_Witness ==
    /\ local[1] # NoLocal
    /\ local[1].op = "db_save_job"
    /\ "tsrCount" \in DOMAIN local[1].old
    /\ "tsrCount" \notin DOMAIN local[1].doc
    /\ Cardinality(local[1].rows) = 2

\* ---- a job is run again after it has ended ----
\* a batch of BatchSize groups with valid tags
GoodBatch ==
    [i \in 1..BatchSize |->
        [gid |-> IF i = 1 THEN <<"g1", 0>> ELSE <<"g2", 0>>, tagsOk |-> TRUE]]

\* Worker 1 runs job 1, alone or as a batch, and stops it, one request at a
\* time; the processes end by themselves with any result. (The worker signals
\* its own children only, which stay zombies until it waits for them, so
\* os.kill does not fail here.)
RerunNext ==
    \/ \E p \in Pids, c \in ExitContents : ProcExit(p, c)
    \/ Quiet /\ \E op \in {"run_job", "run_job_groups"} : RunBegin(1, 1, op)
    \/ RunJobLaunch(1)
    \/ RunJobGroupsLaunch(1, GoodBatch)
    \/ RunReturn(1)
    \/ Quiet /\ StopJobRead(1, 1, <<>>)
    \/ StopJobNext(1)
    \/ StopJobKill(1)
    \/ StopJobSave(1)

RerunInit == InitFresh /\ InitWorkers

RerunSpec == RerunInit /\ [][RerunNext]_vars

TerminalStatuses == {"completed", "failed", "stopped"}

\* C24: a job in a terminal status can be run again: when capacity allows the
\* request is not turned away, and a successful launch sets the status to
\* running and leaves in activeRuns only the groups it has started.
C24_RerunFromTerminal ==
    [][\A w \in Workers :
          (LaunchStep(w) /\ local[w].doc.status \in TerminalStatuses) =>
              LET j == local[w].job
                  ar == store'[j].activeRuns
              IN  /\ (Cardinality(LiveGroups) + Requested(w) <= MAX_CONCURRENT_RUNS)
                        => local'[w].err \in {"", "no_inventory", "bad_tags"}
                  /\ local'[w].err = "" =>
                        /\ store'[j].status = "running"
                        /\ ar # NoRuns
                        /\ \A i \in 1..Len(ar) :
                              ar[i].status = "running" /\ ar[i].pid \in StartedBy(w)]_vars

\* a job whose single run had failed, and had been waited for by the read at
\* the start of the request, is running again with the groups of a new batch
C24_Witness ==
    /\ pc[1] = "run_ret" /\ local[1].err = "" /\ local[1].op = "run_job_groups"
    /\ store[1].status = "running"
    /\ Len(store[1].activeRuns) = BatchSize
    /\ logs[1] = "recap_failed" /\ procs[1].st = "gone"

\* ---- what run_job_groups persists for a job that has a run going ----
\* The ceiling of the model admits no batch next to a live group, so the
\* launch is applied as a function: job 1 is running one group (pid 1, started
\* by a worker that is gone), the process may have ended, and a batch of
\* MinBatch valid groups is launched under any run id; local[1] keeps the
\* call and the document it saves.
MergeGids == {<<"run", 1>>, <<"g1", 0>>}
MergeDocs ==
    {[NewJobDoc(1) EXCEPT !.status = "running", !.lastRunId = 1, !.lastPid = 1,
                          !.lastLogPath = 1, !.hasTsrCount = t, !.hasCounts = c,
                          !.activeRuns = <<[gid |-> gid, pid |-> 1, logPath |-> 1,
                                            status |-> "running"]>>] :
        gid \in MergeGids, t, c \in BOOLEAN}
MergeRequests == [1..MinBatch -> [gid : GroupNames, tagsOk : {TRUE}]]

MergeInit ==
    /\ \E doc \in MergeDocs : store = [j \in Jobs |-> IF j = 1 THEN doc ELSE NoJob]
    /\ procs = [p \in Pids |-> IF p = 1 THEN [st |-> "alive", parent |-> 0, elapsed |-> 0]
                               ELSE [st |-> "none", parent |-> 0, elapsed |-> 0]]
    /\ logs = [p \in Pids |-> IF p = 1 THEN "norecap" ELSE "nofile"]
    /\ InitWorkers

MergeApply(groups, rid) ==
    /\ pc[1] = "idle"
    /\ LET doc == GetJobUnlocked(store[1], FALSE).doc
           job == AutoFixed(doc)
           existing == ExistingActiveRuns(doc)
           first == NextPid
           l == GroupsLoop(groups, 1, existing, first, rid)
       IN  local' = [local EXCEPT ![1] =
                        [op |-> "run_job_groups", job |-> 1, groups |-> groups,
                         runId |-> rid, first |-> first, existing |-> existing,
                         saved |-> RunJobGroupsSaved(job, l.dict, first,
                                                     existing = NoRuns, rid)]]
    /\ UNCHANGED <<store, job_json, procs, logs, running_procs, gate, clock, pc>>

MergeNext ==
    \/ \E c \in ExitContents : ProcExit(1, c)
    \/ \E groups \in MergeRequests, rid \in 1..MaxRid : MergeApply(groups, rid)

MergeSpec == MergeInit /\ [][MergeNext]_vars

\* C25: in the document persisted by a launch, whether or not the job had
\* live groups, lastPid and lastLogPath are the pid and the log path of the
\* first group of the run attempt named by lastRunId.
C25_MirrorIsFirstGroup ==
    local[1] # NoLocal =>
        /\ local[1].saved.lastRunId = local[1].runId
        /\ local[1].saved.lastPid = local[1].first
        /\ local[1].saved.lastLogPath = local[1].first

\* ---- the stale-run reaper thread of each worker ----
\* Time passes in ticks. MAX_RUN_TIMEOUT is the run budget and REAPER_INTERVAL
\* the sleep between two passes, both in ticks; MaxTime ends the model's day.
\* Here each process carries the elapsed time the OS accounts for it, clock is
\* the time of day, and local[w] is the state of worker w's reaper thread.
MAX_RUN_TIMEOUT == 2
REAPER_INTERVAL == 2
MaxTime == 6

ReaperInit ==
    /\ store = [j \in Jobs |-> IF j = 1 THEN NewJobDoc(1) ELSE NoJob]
    /\ job_json = [j \in Jobs |-> IF j = 1 THEN NewJobDoc(1) ELSE NoDir]
    /\ procs = [p \in Pids |-> [st |-> "none", parent |-> 0, elapsed |-> 0]]
    /\ logs = [p \in Pids |-> "nofile"]
    /\ running_procs = [w \in Workers |-> {}]
    /\ gate = 0
    /\ clock = 0
    /\ pc = [w \in Workers |-> "idle"]
    /\ local = [w \in Workers |-> [op |-> "_reap_stale_processes", slept |-> 0]]

\* subprocess.Popen and _running_procs[proc.pid] = proc
PopenRegister(w) ==
    /\ FreePids # {}
    /\ procs' = [procs EXCEPT ![NextPid] = [st |-> "alive", parent |-> w, elapsed |-> 0]]
    /\ logs' = [logs EXCEPT ![NextPid] = "norecap"]
    /\ running_procs' = [running_procs EXCEPT ![w] = @ \cup {NextPid}]
    /\ UNCHANGED <<store, job_json, gate, clock, pc, local>>

\* the reconciler of worker w finds a process of its table dead: pop and wait
PopAndWait(w, p) ==
    /\ p \in running_procs[w]
    /\ procs[p].st = "zombie"
    /\ procs' = [procs EXCEPT ![p].st = "gone"]
    /\ running_procs' = [running_procs EXCEPT ![w] = @ \ {p}]
    /\ UNCHANGED <<store, job_json, logs, gate, clock, pc, local>>

\* one tick goes by, unless a reaper's sleep is over
Tick ==
    /\ clock < MaxTime
    /\ \A w \in Workers : local[w].slept < REAPER_INTERVAL
    /\ clock' = clock + 1
    /\ procs' = [p \in Pids |-> IF procs[p].st \in {"alive", "zombie"}
                                THEN [procs[p] EXCEPT !.elapsed = @ + 1]
                                ELSE procs[p]]
    /\ local' = [w \in Workers |-> [local[w] EXCEPT !.slept = @ + 1]]
    /\ UNCHANGED <<store, job_json, logs, running_procs, gate, pc>>

\* mutant: the pass takes every process of the table for stale
StaleProcs_All(w) == running_procs[w]

\* mutant: only processes that still run are taken for stale
StaleProcs_AliveOnly(w) ==
    {p \in running_procs[w] :
        procs[p].st = "alive" /\ procs[p].elapsed > MAX_RUN_TIMEOUT}

\* the pids of the table with a /proc/<pid>/stat whose elapsed time is over
\* the budget
StaleProcs(w) ==
    {p \in running_procs[w] :
        procs[p].st \in {"alive", "zombie"} /\ procs[p].elapsed > MAX_RUN_TIMEOUT}

\* proc.kill() and proc.wait() for every stale process
ProcsAfterPass(w) ==
    [p \in Pids |-> IF p \in StaleProcs(w) THEN [procs[p] EXCEPT !.st = "gone"]
                    ELSE procs[p]]

\* one pass of _reap_stale_processes after its sleep: proc.kill(),
\* proc.wait(), _running_procs.pop(pid) for every stale process
ReaperPass(w) ==
    /\ local[w].slept = REAPER_INTERVAL
    /\ procs' = ProcsAfterPass(w)
    /\ running_procs' = [running_procs EXCEPT ![w] = @ \ StaleProcs(w)]
    /\ local' = [local EXCEPT ![w].slept = 0]
    /\ UNCHANGED <<store, job_json, logs, gate, clock, pc>>

ReaperNext ==
    \/ \E w \in Workers : PopenRegister(w)
    \/ \E p \in Pids : ProcExit(p, "recap_ok")
    \/ \E w \in Workers, p \in Pids : PopAndWait(w, p)
    \/ Tick
    \/ \E w \in Workers : ReaperPass(w)

ReaperSpec == ReaperInit /\ [][ReaperNext]_vars

\* C26: a pass of the reaper kills and removes every process of the worker's
\* table whose elapsed time exceeds MAX_RUN_TIMEOUT and no other; hence no
\* process in a worker's table runs past the budget by more than one reaper
\* interval.
C26_ReaperKillsStaleOnly ==
    [][/\ \A w \in Workers :
            (local[w].slept = REAPER_INTERVAL /\ local'[w].slept = 0) =>
                \A p \in running_procs[w] :
                    IF procs[p].elapsed > MAX_RUN_TIMEOUT
                    THEN procs'[p].st # "alive" /\ p \notin running_procs'[w]
                    ELSE procs'[p] = procs[p] /\ p \in running_procs'[w]
       /\ \A w \in Workers : \A p \in running_procs'[w] :
            procs'[p].st = "alive" =>
                procs'[p].elapsed <= MAX_RUN_TIMEOUT + REAPER_INTERVAL]_vars

\* a pass has just killed a process that was over the budget and has left
\* one within the budget running in the same table
C26_Witness ==
    \E w \in Workers : \E p, q \in Pids :
        /\ local[w].slept = 0 /\ clock > 0
        /\ procs[p].st = "gone" /\ procs[p].parent = w
        /\ procs[p].elapsed > MAX_RUN_TIMEOUT
        /\ logs[p] = "norecap"
        /\ q \in running_procs[w] /\ procs[q].st = "alive"
        /\ procs[q].elapsed > 0

\* ---- _pid_alive, step by step ----
\* The probe is two system calls: os.kill(pid, 0), then the read of
\* /proc/<pid>/status. Other threads and workers run between the two.
ProbeInit ==
    /\ store = [j \in Jobs |-> IF j = 1 THEN NewJobDoc(1) ELSE NoJob]
    /\ job_json = [j \in Jobs |-> IF j = 1 THEN NewJobDoc(1) ELSE NoDir]
    /\ procs = [p \in Pids |-> [st |-> "none", parent |-> 0, elapsed |-> 0]]
    /\ logs = [p \in Pids |-> "nofile"]
    /\ running_procs = [w \in Workers |-> {}]
    /\ gate = 0
    /\ clock = 0
    /\ pc = [w \in Workers |-> "idle"]
    /\ local = [w \in Workers |-> NoLocal]

\* os.kill(pid, 0): any exception returns False
PidAliveKill(w, pid) ==
    /\ pc[w] = "idle"
    /\ pc' = [pc EXCEPT ![w] = IF KillProbeOk(pid) THEN "probe_status" ELSE "probe_ret"]
    /\ local' = [local EXCEPT ![w] =
                    [op |-> "_pid_alive", pid |-> pid, result |-> FALSE]]
    /\ UNCHANGED <<store, job_json, procs, logs, running_procs, gate, clock>>

\* the State: line of /proc/<pid>/status: "Z" not in line; when the file
\* cannot be opened the exception is passed over and the result is True
PidAliveStatus(w) ==
    /\ pc[w] = "probe_status"
    /\ pc' = [pc EXCEPT ![w] = "probe_ret"]
    /\ local' = [local EXCEPT ![w].result =
                    IF procs[local[w].pid].st \in {"alive", "zombie"}
                    THEN procs[local[w].pid].st # "zombie"
                    ELSE TRUE]
    /\ UNCHANGED <<store, job_json, procs, logs, running_procs, gate, clock>>

PidAliveReturn(w) ==
    /\ pc[w] = "probe_ret"
    /\ pc' = [pc EXCEPT ![w] = "idle"]
    /\ local' = [local EXCEPT ![w] = NoLocal]
    /\ UNCHANGED <<store, job_json, procs, logs, running_procs, gate, clock>>

ProbeNext ==
    \/ \E w \in Workers : PopenRegister(w) /\ pc[w] = "idle"
    \/ \E p \in Pids : ProcExit(p, "recap_ok")
    \/ \E w \in Workers, p \in Pids : PopAndWait(w, p) /\ pc[w] = "idle"
    \/ \E w \in Workers, p \in Pids : PidAliveKill(w, p)
    \/ \E w \in Workers : PidAliveStatus(w)
    \/ \E w \in Workers : PidAliveReturn(w)

ProbeSpec == ProbeInit /\ [][ProbeNext]_vars

\* C27: _pid_alive answers False for a pid without a process and for a
\* zombie, and True only for a process that exists and is not a zombie, the
\* process being judged at the system call that settles the answer.
C27_PidAliveOracle ==
    [][\A w \in Workers :
        (pc[w] \in {"idle", "probe_status"} /\ pc'[w] = "probe_ret") =>
            (local'[w].result <=> procs[local'[w].pid].st = "alive")]_vars

\* ---- the auto-fix of a stale running job at the start of a run request ----
\* the document the launcher holds is marked running and none of the
\* processes it records is alive
StaleRunning(w) ==
    /\ local[w].doc.status = "running"
    /\ \A p \in GroupPids(local[w].doc) : ~PidAlive(p)

\* C28: a run request that finds its job marked running without a live
\* process resets it to completed with empty lastPid and activeRuns before
\* counting; the stale groups are not counted toward the ceiling and are not
\* merged into the activeRuns of the new run.
C28_AutoFixStale ==
    [][\A w \in Workers :
          (LaunchStep(w) /\ StaleRunning(w)) =>
              LET doc == store'[local[w].job]
                  stale == GroupPids(local[w].doc)
              IN  /\ local'[w].err # "" =>
                        /\ doc.status = "completed"
                        /\ doc.lastPid = 0
                        /\ doc.activeRuns = NoRuns
                  /\ local'[w].err = "" =>
                        /\ doc.status = "running"
                        /\ GroupPids(doc) = StartedBy(w)
                  /\ (local'[w].err = "queue_full")
                        <=> (Cardinality(LiveGroups \ stale) + Requested(w)
                                > MAX_CONCURRENT_RUNS)]_vars

\* a request on a job that ran before ended with an error after the
\* auto-fix: the job is completed without groups while another job's
\* process is alive
C28_Witness ==
    \E w \in Workers :
        /\ pc[w] = "run_ret" /\ local[w].err = "no_inventory"
        /\ store[local[w].job].status = "completed"
        /\ store[local[w].job].activeRuns = NoRuns
        /\ store[local[w].job].lastPid = 0
        /\ store[local[w].job].lastRunId > 0
        /\ Cardinality(LiveGroups) = MAX_CONCURRENT_RUNS - 1

\* ---- a request rejected at admission ----
Alive == {p \in Pids : procs[p].st = "alive"}
AliveAfter == {p \in Pids : procs'[p].st = "alive"}
\* the step adds no group to the activeRuns of job j
NoGroupAdded(j) ==
    store'[j] # NoJob /\ store'[j].activeRuns # NoRuns =>
        /\ store[j] # NoJob
        /\ Keys(store'[j].activeRuns) \subseteq Keys(store[j].activeRuns)

\* C29: a run request rejected at admission starts no process, adds no
\* group to any job's activeRuns, registers nothing in the worker's process
\* table and is not queued; the live processes and every other job's
\* document are as they were before the request.
C29_RejectionHasNoEffect ==
    [][\A w \in Workers :
          /\ ((pc[w] = "idle" /\ pc'[w] = "run_gate")
                \/ (LaunchStep(w) /\ local'[w].err = "queue_full")) =>
                /\ StartedBy(w) = {}
                /\ AliveAfter = Alive
                /\ running_procs'[w] \subseteq running_procs[w]
                /\ \A j \in Jobs : NoGroupAdded(j)
                /\ \A j \in Jobs \ {local'[w].job} : store'[j] = store[j]
          /\ (pc[w] = "run_ret" /\ local[w].err = "queue_full" /\ Stepping(w)) =>
                (pc'[w] = "idle" /\ local'[w] = NoLocal)]_vars

\* a request for a batch on a job that never ran has been turned away while
\* another worker's process is alive; the worker's table is empty
C29_Witness ==
    \E w \in Workers :
        /\ pc[w] = "run_ret" /\ local[w].err = "queue_full"
        /\ local[w].op = "run_job_groups"
        /\ store[local[w].job].activeRuns = NoRuns
        /\ store[local[w].job].lastRunId = 0
        /\ running_procs[w] = {}
        /\ Alive # {}

\* ---- the children of a worker from launch to wait() ----
\* Requests of both workers for job 1, with the reaper threads. Time goes by
\* without a bound here: the elapsed time of a process is followed up to the
\* first value over the budget only, and a pass of the reaper may come at
\* any moment.
Age ==
    /\ \E p \in Pids : /\ procs[p].st \in {"alive", "zombie"}
                       /\ procs[p].elapsed <= MAX_RUN_TIMEOUT
    /\ procs' = [p \in Pids |->
                    IF procs[p].st \in {"alive", "zombie"}
                       /\ procs[p].elapsed <= MAX_RUN_TIMEOUT
                    THEN [procs[p] EXCEPT !.elapsed = @ + 1]
                    ELSE procs[p]]
    /\ UNCHANGED <<store, job_json, logs, running_procs, gate, clock, pc, local>>

\* a pass of worker w's reaper that finds a stale process
ReaperSweep(w) ==
    /\ StaleProcs(w) # {}
    /\ procs' = ProcsAfterPass(w)
    /\ running_procs' = [running_procs EXCEPT ![w] = @ \ StaleProcs(w)]
    /\ UNCHANGED <<store, job_json, logs, gate, clock, pc, local>>

ChildInit == InitFresh /\ InitWorkers

ChildNext ==
    \/ \E p \in Pids : ProcExit(p, "recap_ok")
    \/ \E w \in Workers : Quiet /\ RunBegin(w, 1, "run_job")
    \/ \E w \in Workers : RunJobLaunch(w)
    \/ \E w \in Workers : RunReturn(w)
    \/ \E w \in Workers : Quiet /\ GetJobRead(w, 1)
    \/ \E w \in Workers : GetJobSave(w)
    \/ Age
    \/ \E w \in Workers : ReaperSweep(w)

ChildSpec == ChildInit /\ [][ChildNext]_vars

\* time goes by and every reaper thread keeps making its passes
ChildFairSpec ==
    ChildSpec /\ WF_vars(Age) /\ \A w \in Workers : WF_vars(ReaperSweep(w))

\* C30: every process a worker starts is in that worker's table from its
\* launch, and once it has exited it is eventually waited for and out of the
\* table, also when another worker marked its group terminal first.
C30_EveryChildReaped ==
    /\ [][\A w \in Workers : \A p \in StartedBy(w) : p \in running_procs'[w]]_vars
    /\ \A p \in Pids :
          (procs[p].st = "zombie")
              ~> (procs[p].st = "gone" /\ \A w \in Workers : p \notin running_procs[w])

\* a process that ended by itself was waited for after the budget, when the
\* store no longer held its pid
C30_Witness ==
    \E p \in Pids :
        /\ procs[p].st = "gone" /\ procs[p].parent # 0
        /\ logs[p] = "recap_ok"
        /\ procs[p].elapsed > MAX_RUN_TIMEOUT
        /\ \A w \in Workers : p \notin running_procs[w]
        /\ store[1].status # "running"
        /\ p \notin GroupPids(store[1])

\* ---- get_job and list_jobs applied to the same stored document ----
\* Worker 1 runs job 1, alone or as a batch; processes end with any result;
\* worker 2 reads the job through get_job or list_jobs, or has both computed
\* for the same store contents and processes.
ViewBoth(w, j) ==
    /\ pc[w] = "idle"
    /\ store[j] # NoJob
    /\ \E tsrDiff \in BOOLEAN :
         LET job == store[j]
             g == GetJobUnlocked(job, tsrDiff)
             l == ListJobsRow(job)
         IN  /\ tsrDiff => (g.doc.status = "running" /\ job.hasTsrCount)
             /\ local' = [local EXCEPT ![w] =
                            [op |-> "views", job |-> j,
                             got |-> g.doc, listed |-> l.doc,
                             gotLeft |-> IF g.write THEN g.doc ELSE job,
                             listedLeft |-> IF l.write THEN l.doc ELSE job]]
    /\ pc' = [pc EXCEPT ![w] = "views_ret"]
    /\ UNCHANGED <<store, job_json, procs, logs, running_procs, gate, clock>>

ViewReturn(w) ==
    /\ pc[w] = "views_ret"
    /\ pc' = [pc EXCEPT ![w] = "idle"]
    /\ local' = [local EXCEPT ![w] = NoLocal]
    /\ UNCHANGED <<store, job_json, procs, logs, running_procs, gate, clock>>

ViewNext ==
    \/ \E p \in Pids, c \in ExitContents : ProcExit(p, c)
    \/ Quiet /\ \E op \in {"run_job", "run_job_groups"} : RunBegin(1, 1, op)
    \/ RunJobLaunch(1)
    \/ RunJobGroupsLaunch(1, GoodBatch)
    \/ RunReturn(1)
    \/ Quiet /\ GetJobRead(2, 1)
    \/ GetJobSave(2)
    \/ Quiet /\ ListJobsRead(2)
    \/ ListJobsNext(2)
    \/ Quiet /\ ViewBoth(2, 1)
    \/ ViewReturn(2)

ViewInit == InitFresh /\ InitWorkers

ViewSpec == ViewInit /\ [][ViewNext]_vars

\* C31: for the same store contents and the same live processes get_job and
\* list_jobs report the same job status and the same status and pid of every
\* group, and the documents they leave in the store agree on status,
\* activeRuns and lastPid.
C31_ViewsAgree ==
    \A w \in Workers :
        pc[w] = "views_ret" =>
            /\ local[w].got.status = local[w].listed.status
            /\ local[w].got.activeRuns = local[w].listed.activeRuns
            /\ RunState(local[w].gotLeft) = RunState(local[w].listedLeft)

\* ---- read-modify-write requests against a launch on the same job ----
\* Worker 1 runs job 1 with run_job, one request after the other; worker 2
\* reads, lists, updates and stops the job at any moment.
LostNext ==
    \/ \E p \in Pids, c \in ExitContents : ProcExit(p, c)
    \/ RunBegin(1, 1, "run_job")
    \/ RunJobLaunch(1)
    \/ RunReturn(1)
    \/ GetJobRead(2, 1)
    \/ GetJobSave(2)
    \/ ListJobsRead(2)
    \/ ListJobsNext(2)
    \/ UpdateJobRead(2, 1)
    \/ UpdateJobSave(2)
    \/ StopJobRead(2, 1, <<>>)
    \/ StopJobNext(2)
    \/ StopJobKill(2)
    \/ StopJobSave(2)

LostInit == InitFresh /\ InitWorkers

LostSpec == LostInit /\ [][LostNext]_vars

\* C32: no update of the run state is lost: as long as a launched process is
\* alive, the stored document of its job lists its pid in a group with status
\* running, whatever get_job, list_jobs, update_job or stop_job had read
\* before the launch was persisted.
C32_NoLostUpdate ==
    \A p \in Pids :
        procs[p].st = "alive" =>
            \E j \in Stored : \E i \in 1..Len(store[j].activeRuns) :
                /\ store[j].activeRuns[i].pid = p
                /\ store[j].activeRuns[i].status = "running"

\* ---- delete_job against a running batch ----
\* Worker 1 runs job 1, alone or as a batch; worker 2 asks to delete it.
DeleteNext ==
    \/ \E p \in Pids, c \in ExitContents : ProcExit(p, c)
    \/ Quiet /\ \E op \in {"run_job", "run_job_groups"} : RunBegin(1, 1, op)
    \/ RunJobLaunch(1)
    \/ RunJobGroupsLaunch(1, GoodBatch)
    \/ \E w \in Workers : RunReturn(w)
    \/ Quiet /\ DeleteJobRow(2, 1)
    \/ DeleteJobTree(2)

DeleteInit == InitFresh /\ InitWorkers

DeleteSpec == DeleteInit /\ [][DeleteNext]_vars

\* C33: delete_job is refused with a validation error, and leaves the stored
\* document and the processes as they are, whenever any group of the job's
\* activeRuns has a live pid.
C33_DeleteRefusedWhileLive ==
    [][\A w \in Workers : \A j \in Stored :
          (/\ pc[w] = "idle"
           /\ local'[w].op = "delete_job"
           /\ local'[w].job = j
           /\ LiveGroupsOf(store[j]) > 0)
          => /\ pc'[w] = "run_ret"
             /\ ErrorType(local'[w].err) = "ValidationError"
             /\ store'[j] # NoJob
             /\ AliveAfter = Alive]_vars

\* ---- the shape of the documents written to the store ----
\* the step writes job j's document
Written(j) ==
    /\ store'[j] # NoJob
    /\ \/ store'[j] # store[j]
       \/ \E w \in Workers : pc[w] = "get_save" /\ pc'[w] = "idle" /\ local[w].job = j
       \/ \E w \in Workers : /\ pc[w] = "list_next" /\ Stepping(w)
                             /\ Head(local[w].todo) = j
                             /\ ListJobsRow(local[w].raw[j]).write
\* a group has a pid exactly when its status is running
PidIffRunning(doc) ==
    \A i \in 1..Len(doc.activeRuns) :
        (doc.activeRuns[i].pid # 0) <=> (doc.activeRuns[i].status = "running")
\* a running job has a running group
RunningHasGroup(doc) ==
    doc.status = "running" =>
        \E i \in 1..Len(doc.activeRuns) : doc.activeRuns[i].status = "running"
\* a document of the release before activeRuns: one run, held in lastPid
LegacyRun(doc) == doc.activeRuns = NoRuns /\ doc.lastPid # 0

ResultDoc ==
    [NewJobDoc(1) EXCEPT !.status = "running", !.lastRunId = 1, !.lastPid = 2,
                         !.lastLogPath = 2, !.hasTsrCount = TRUE, !.hasCounts = TRUE,
                         !.activeRuns = <<[gid |-> <<"run", 1>>, pid |-> 1, logPath |-> 1,
                                           status |-> "running"],
                                          [gid |-> <<"run", 2>>, pid |-> 2, logPath |-> 2,
                                           status |-> "running"]>>]

ResultInit ==
    /\ store = [j \in Jobs |-> IF j = 1 THEN ResultDoc ELSE NoJob]
    /\ procs = [p \in Pids |-> IF p \in {1, 2} THEN [st |-> "alive", parent |-> 0, elapsed |-> 0]
                               ELSE [st |-> "none", parent |-> 0, elapsed |-> 0]]
    /\ logs = [p \in Pids |-> IF p \in {1, 2} THEN "norecap" ELSE "nofile"]
    /\ InitWorkers

ResultApply(groups, rid) ==
    /\ pc[1] = "idle"
    /\ LET doc == GetJobUnlocked(store[1], FALSE).doc
           job == AutoFixed(doc)
           existing == ExistingActiveRuns(doc)
           first == NextPid
           l == GroupsLoop(groups, 1, existing, first, rid)
           saved == RunJobGroupsSaved(job, l.dict, first, existing = NoRuns, rid)
       IN  local' = [local EXCEPT ![1] =
                        [op |-> "run_job_groups", job |-> 1, saved |-> saved,
                         err |-> IF IntOfPidRaises(l.dict) THEN "ValueError" ELSE "",
                         runId |-> IF IntOfPidRaises(l.dict) THEN 0 ELSE rid,
                         groups |-> IF IntOfPidRaises(l.dict) THEN {}
                                    ELSE Returned(l.dict)]]
    /\ UNCHANGED <<store, job_json, procs, logs, running_procs, gate, clock, pc>>

ResultNext ==
    \/ \E p \in {1, 2}, c \in ExitContents : ProcExit(p, c)
    \/ \E groups \in MergeRequests, rid \in 1..MaxRid : ResultApply(groups, rid)

ResultSpec == ResultInit /\ [][ResultNext]_vars

\* C35: once run_job_groups has started its processes and persisted the
\* document it returns the groups of the document and raises nothing,
\* whatever groups were merged from earlier runs.
C35_NoRaiseAfterPersist ==
    local[1].op = "run_job_groups" =>
        /\ local[1].err = ""
        /\ {g.gid : g \in local[1].groups} = Keys(local[1].saved.activeRuns)

\* ---- reads in progress while the job is stopped ----
\* Worker 1 runs job 1 with run_job and stops it, one request after the
\* other; worker 2 reads the job with get_job and list_jobs at any moment.
HoldNext ==
    \/ \E p \in Pids : ProcExit(p, "recap_ok")
    \/ Quiet /\ RunBegin(1, 1, "run_job")
    \/ RunJobLaunch(1)
    \/ RunReturn(1)
    \/ StopJobRead(1, 1, <<>>)
    \/ StopJobNext(1)
    \/ StopJobKill(1)
    \/ StopJobSave(1)
    \/ GetJobRead(2, 1)
    \/ GetJobSave(2)
    \/ ListJobsRead(2)
    \/ ListJobsNext(2)

HoldInit == InitFresh /\ InitWorkers

HoldSpec == HoldInit /\ [][HoldNext]_vars

\* C36: once stop_job without a groupId has stored the job as stopped, the
\* job stays stopped until the next run request on it persists a launch; a
\* get_job or list_jobs that was in progress during the stop does not put it
\* back to running, completed or failed.
C36_StoppedStays ==
    [][\A j \in Stored :
          (/\ store[j].status = "stopped"
           /\ ~\E w \in Workers : LaunchStep(w) /\ local[w].job = j)
          => (store'[j] # NoJob /\ store'[j].status = "stopped")]_vars

\* ---- the group-id loop of run_job over the contents of activeRuns ----
\* Job 1 is running one live group, alone or next to a finished one, under
\* any of the ids below; run_job is called at the second whose stamp is 1.
LoopGids == {<<"run", 1>>, <<"run", 2>>, <<"run", 3>>, <<"run_", 1>>, <<"g1", 0>>}
LoopRuns ==
    {<<[gid |-> a, pid |-> 1, logPath |-> 1, status |-> "running"]>> : a \in LoopGids}
    \cup UNION {{<<[gid |-> a, pid |-> 1, logPath |-> 1, status |-> "running"],
                    [gid |-> b, pid |-> 0, logPath |-> 2, status |-> "completed"]>> :
                    b \in LoopGids \ {a}} : a \in LoopGids}

LoopInit ==
    /\ \E ar \in LoopRuns :
          store = [j \in Jobs |->
                      IF j = 1
                      THEN [NewJobDoc(1) EXCEPT !.status = "running", !.lastPid = 1,
                                                !.lastLogPath = 1, !.hasTsrCount = TRUE,
                                                !.hasCounts = TRUE, !.activeRuns = ar]
                      ELSE NoJob]
    /\ procs = [p \in Pids |-> IF p = 1 THEN [st |-> "alive", parent |-> 0, elapsed |-> 0]
                               ELSE IF p = 2 THEN [st |-> "gone", parent |-> 0, elapsed |-> 0]
                               ELSE [st |-> "none", parent |-> 0, elapsed |-> 0]]
    /\ logs = [p \in Pids |-> IF p = 1 THEN "norecap"
                              ELSE IF p = 2 THEN "recap_ok" ELSE "nofile"]
    /\ InitWorkers

LoopNext ==
    \/ \E p \in Pids : ProcExit(p, "recap_ok")
    \/ Quiet /\ RunBegin(1, 1, "run_job")
    \/ RunJobLaunch(1)
    \/ RunReturn(1)

LoopSpec == LoopInit /\ [][LoopNext]_vars

\* C37: the group-id loop of run_job ends for every content of activeRuns
\* and every run stamp: no request stays in the loop, holding the gate.
C37_GidLoopTerminates == \A w \in Workers : pc[w] # "run_loop"

\* ---- the values of status ----
JobStatuses == {"saved", "running", "completed", "failed", "stopped"}
GroupStatusValues == {"running", "completed", "failed", "stopped"}

\* C38: a job's status is one of saved, running, completed, failed, stopped
\* and a group's one of running, completed, failed, stopped; once a job has
\* left saved, no step puts it back to saved.
C38_NeverBackToSaved ==
    [][\A j \in Jobs :
          store'[j] # NoJob =>
              /\ store'[j].status \in JobStatuses
              /\ \A i \in 1..Len(store'[j].activeRuns) :
                    store'[j].activeRuns[i].status \in GroupStatusValues
              /\ (store[j] # NoJob /\ store[j].status # "saved")
                    => store'[j].status # "saved"]_vars

====
